---- MODULE Spec2Model ----
(***************************************************************************)
(* WiMarka annotation backend (tools/wimarka-annotate/backend).            *)
(* The relational tables are sequences of rows.  For users, sentences,     *)
(* annotations and evaluations, whose rows no handler deletes, a row's     *)
(* primary key is its position; rows of user languages and highlights are  *)
(* deleted and replaced, and nothing refers to their keys.                 *)
(* Every request handler of main.py is one action; the handlers whose      *)
(* interleaving matters are also given step by step (one action per        *)
(* database round trip) for the specification of overlapping requests.     *)
(***************************************************************************)
EXTENDS Integers, Sequences, FiniteSets, TLC

VARIABLES users, user_languages, sentences, annotations, highlights,
          evaluations, last, reqs, stage

vars == <<users, user_languages, sentences, annotations, highlights,
          evaluations, last, reqs, stage>>

db == <<users, user_languages, sentences, annotations, highlights, evaluations>>

----------------------------------------------------------------------------
(* Bounds of the model *)

MaxUsers == 3
MaxSentences == 16
MaxAnnotations == 2
MaxScenarioAnnotations == 6
MaxEvaluations == 2
MaxHighlights == 2
MaxBulk == 1
NumReqs == 2

----------------------------------------------------------------------------
(* Values *)

NoneVal == "None"

HTTP_200_OK == 200
HTTP_400_BAD_REQUEST == 400
HTTP_403_FORBIDDEN == 403
HTTP_404_NOT_FOUND == 404
HTTP_500_INTERNAL == 500

AdminEmail == "admin@example.com"
AdminUsername == "admin"

Emails == {AdminEmail, "a@example.com"}
Usernames == {AdminUsername, "a"}
Languages == {"fr", "tagalog"}

\* request bodies of POST /api/register (schemas.UserCreate)
UserCreate ==
    [email : Emails, username : Usernames,
     preferred_language : {NoneVal, "fr"},
     languages : {<< >>, <<"tagalog">>, <<"fr", "tagalog">>},
     is_evaluator : BOOLEAN]

\* TextHighlightCreate values: two of them share the deduplication key
HighlightInputs ==
    { [highlighted_text |-> "le", start_index |-> 0, end_index |-> 2,
       text_type |-> "machine", comment |-> "c"],
      [highlighted_text |-> "LE", start_index |-> 0, end_index |-> 2,
       text_type |-> "machine", comment |-> "c"],
      [highlighted_text |-> "le", start_index |-> 0, end_index |-> 2,
       text_type |-> "machine", comment |-> "d"] }

RECURSIVE SeqsUpTo(_, _)
SeqsUpTo(S, n) ==
    IF n = 0 THEN { << >> }
    ELSE LET shorter == SeqsUpTo(S, n - 1)
         IN  shorter \cup { Append(q, x) : q \in { r \in shorter : Len(r) = n - 1 }, x \in S }

HighlightLists == SeqsUpTo(HighlightInputs, MaxHighlights)

\* a field the request does not set (model_dump(exclude_unset=True))
Unset == "unset"

\* request bodies of POST /api/sentences (schemas.SentenceCreate)
SentenceCreate == [target_language : Languages]

\* request bodies of PUT /api/annotations/{id} (schemas.AnnotationUpdate):
\* annotation_status is any string or unset, highlights a list or None
\* (has_highlights is FALSE for highlights = None)
AnnotationUpdate ==
    { d \in [annotation_status : {Unset, "completed", "in_progress"},
             has_highlights : BOOLEAN, highlights : HighlightLists] :
        ~d.has_highlights => d.highlights = << >> }

\* request bodies of PUT /api/evaluations/{id} (schemas.EvaluationUpdate)
EvaluationUpdate == [evaluation_status : {Unset, "completed", "draft"}]

----------------------------------------------------------------------------
(* Rows *)

\* database.User with the column defaults (is_admin, is_active)
UserRow(email, username, preferred_language, is_evaluator) ==
    [email |-> email, username |-> username,
     preferred_language |-> preferred_language,
     is_admin |-> FALSE, is_evaluator |-> is_evaluator, is_active |-> TRUE]

\* database.Sentence with the column default is_active = True
SentenceRow(data) ==
    [target_language |-> data.target_language, is_active |-> TRUE]

AnnotationRow(sentence_id, annotator_id) ==
    [sentence_id |-> sentence_id, annotator_id |-> annotator_id,
     annotation_status |-> "completed"]

HighlightRow(annotation_id, h) ==
    [annotation_id |-> annotation_id, highlighted_text |-> h.highlighted_text,
     start_index |-> h.start_index, end_index |-> h.end_index,
     text_type |-> h.text_type, comment |-> h.comment]

EvaluationRow(annotation_id, evaluator_id) ==
    [annotation_id |-> annotation_id, evaluator_id |-> evaluator_id,
     evaluation_status |-> "completed"]

\* the target_language of the sample sentences init_db.py adds, in order
sample_sentences ==
    << "fr", "fr", "fr", "fr", "fr", "tagalog", "tagalog", "cebuano", "cebuano",
       "ilocano", "hiligaynon", "bicolano", "waray", "pampangan", "pangasinan" >>

\* the primary keys of the first sample sentence in "fr" and in "tagalog"
FirstFrench == 1
FirstTagalog == 6

\* the user init_db.py creates
AdminUser ==
    [email |-> AdminEmail, username |-> AdminUsername,
     preferred_language |-> "en",
     is_admin |-> TRUE, is_evaluator |-> FALSE, is_active |-> TRUE]

----------------------------------------------------------------------------
(* Sequence helpers *)

Ids(table) == 1 .. Len(table)

RECURSIVE SelectRows(_, _, _)
\* the rows of a table for which keep[i] holds, in table order
SelectRows(table, keep, i) ==
    IF i > Len(table) THEN << >>
    ELSE IF keep[i] THEN <<table[i]>> \o SelectRows(table, keep, i + 1)
         ELSE SelectRows(table, keep, i + 1)

Min(S) == CHOOSE x \in S : \A y \in S : x <= y

RECURSIVE SelectIds(_, _, _)
\* the primary keys, from i up to n, of the rows for which keep[i] holds, in
\* primary-key order: Query.all() of a filtered query
SelectIds(n, keep, i) ==
    IF i > n THEN << >>
    ELSE IF keep[i] THEN <<i>> \o SelectIds(n, keep, i + 1)
         ELSE SelectIds(n, keep, i + 1)

\* Query.offset(skip) of a result list: the limit is not applied
Paginate_nolimit(rows, skip, limit) ==
    IF skip >= Len(rows) THEN << >> ELSE SubSeq(rows, skip + 1, Len(rows))

\* Query.offset(skip).limit(limit) of a result list
Paginate(rows, skip, limit) ==
    IF skip >= Len(rows) THEN << >>
    ELSE SubSeq(rows, skip + 1,
                IF skip + limit < Len(rows) THEN skip + limit ELSE Len(rows))

----------------------------------------------------------------------------
(* The response of the last request: what the client observes *)

\* EvaluatorStats of a response that carries none
NoStats == [total_evaluations |-> 0, completed_evaluations |-> 0, pending_evaluations |-> 0]

NoLast ==
    [op |-> "none", caller |-> 0, target |-> 0, code |-> 0, result |-> 0,
     email |-> "", username |-> "", has_highlights |-> FALSE, highlights |-> << >>,
     skip |-> 0, limit |-> 0, rows |-> << >>, stats |-> NoStats,
     languages |-> << >>, annotation_status |-> Unset]

Response(op, caller, target, code, result) ==
    [NoLast EXCEPT !.op = op, !.caller = caller, !.target = target,
                   !.code = code, !.result = result]

----------------------------------------------------------------------------
(* Auth dependencies (auth.py).  Every caller u is an existing user whose   *)
(* token was accepted; the role guards answer 403 when their predicate is  *)
(* false.                                                                  *)

get_current_admin_user(u) == users[u].is_admin

get_current_evaluator_user(u) == users[u].is_evaluator

----------------------------------------------------------------------------
(* Queries *)

\* the subquery without the filter on the annotator
HasAnnotation_any_user(u, sentence_id) ==
    \E a \in Ids(annotations) : annotations[a].sentence_id = sentence_id

\* the NOT EXISTS subquery of get_next_sentence / get_unannotated_sentences,
\* and the pre-check of create_annotation
HasAnnotation(u, sentence_id) ==
    \E a \in Ids(annotations) :
        /\ annotations[a].sentence_id = sentence_id
        /\ annotations[a].annotator_id = u

\* the filter without the test of target_language
NextCandidates_any_language(u) ==
    { s \in Ids(sentences) :
        /\ sentences[s].is_active = TRUE
        /\ ~HasAnnotation(u, s) }

\* the filter without the NOT EXISTS subquery
NextCandidates_annotated(u) ==
    { s \in Ids(sentences) :
        /\ sentences[s].is_active = TRUE
        /\ sentences[s].target_language = users[u].preferred_language }

\* the filter of get_next_sentence
NextCandidates(u) ==
    { s \in Ids(sentences) :
        /\ sentences[s].is_active = TRUE
        /\ sentences[s].target_language = users[u].preferred_language
        /\ ~HasAnnotation(u, s) }

\* .first(): the first row, 0 for None.  The query has no ORDER BY and the
\* engine is set up outside the handlers; the rows are taken in the order
\* the specification gives, by primary key.
NextSentenceFor(u) ==
    IF NextCandidates(u) = {} THEN 0 ELSE Min(NextCandidates(u))

\* the query of get_unannotated_sentences before offset and limit
UnannotatedSentences(u) ==
    SelectIds(Len(sentences),
              [s \in Ids(sentences) |->
                  /\ sentences[s].is_active = TRUE
                  /\ sentences[s].target_language = users[u].preferred_language
                  /\ ~HasAnnotation(u, s)], 1)

\* the subquery of get_pending_evaluations: Evaluation.annotation_id of the
\* evaluator's Evaluations
evaluated_annotation_ids(u) ==
    { evaluations[e].annotation_id :
        e \in { x \in Ids(evaluations) : evaluations[x].evaluator_id = u } }

\* the query of get_pending_evaluations before offset and limit
PendingAnnotations(u) ==
    SelectIds(Len(annotations),
              [a \in Ids(annotations) |->
                  /\ annotations[a].annotation_status = "completed"
                  /\ a \notin evaluated_annotation_ids(u)], 1)

\* the counts of get_evaluator_stats
EvaluatorStats(u) ==
    [total_evaluations |->
        Cardinality({ e \in Ids(evaluations) : evaluations[e].evaluator_id = u }),
     completed_evaluations |->
        Cardinality({ e \in Ids(evaluations) :
                        /\ evaluations[e].evaluator_id = u
                        /\ evaluations[e].evaluation_status = "completed" }),
     pending_evaluations |->
        Cardinality({ a \in Ids(annotations) :
                        /\ annotations[a].annotation_status = "completed"
                        /\ ~\E e \in Ids(evaluations) :
                              /\ evaluations[e].evaluator_id = u
                              /\ evaluations[e].annotation_id = a })]

\* the pre-check of create_evaluation
HasEvaluation(u, annotation_id) ==
    \E e \in Ids(evaluations) :
        /\ evaluations[e].annotation_id = annotation_id
        /\ evaluations[e].evaluator_id = u

\* a pre-check that asks for both the email and the username to be taken
UserExists_both(email, username) ==
    \E x \in Ids(users) :
        users[x].email = email /\ users[x].username = username

\* the pre-check of register
UserExists(email, username) ==
    \E x \in Ids(users) :
        users[x].email = email \/ users[x].username = username

----------------------------------------------------------------------------
(* Highlight deduplication *)

HighlightKey(h) == <<h.start_index, h.end_index, h.text_type, h.comment>>

\* the loop without the test of seen: every submitted highlight is kept
UniqueHighlights_all(hl, i, seen) ==
    [j \in 1 .. (Len(hl) + 1 - i) |-> hl[j + i - 1]]

RECURSIVE UniqueHighlights(_, _, _)
\* the loop over annotation_data.highlights: keeps the first highlight of
\* every key, in order
UniqueHighlights(hl, i, seen) ==
    IF i > Len(hl) THEN << >>
    ELSE IF HighlightKey(hl[i]) \in seen
         THEN UniqueHighlights(hl, i + 1, seen)
         ELSE <<hl[i]>> \o UniqueHighlights(hl, i + 1, seen \cup {HighlightKey(hl[i])})

\* the rows db.add()ed for an annotation
NewHighlightRows(annotation_id, hl) ==
    LET uniq == UniqueHighlights(hl, 1, {})
    IN  [i \in 1 .. Len(uniq) |-> HighlightRow(annotation_id, uniq[i])]

\* db.query(TextHighlight).filter(annotation_id == id).delete()
DeleteHighlights(annotation_id) ==
    SelectRows(highlights,
               [i \in Ids(highlights) |-> highlights[i].annotation_id # annotation_id], 1)

\* the response of an annotation handler after its commit: building the
\* AnnotationResponse fails when the annotation's sentence does not exist
AnnotationResponseCode(sentence_id) ==
    IF sentence_id \in Ids(sentences) THEN HTTP_200_OK ELSE HTTP_500_INTERNAL

----------------------------------------------------------------------------
(* Initial state: the database init_db.py leaves, the admin user and the   *)
(* sample sentences, all of them active.                                   *)

IdleReq == [pc |-> "idle", caller |-> 0, sentence_id |-> 0, highlights |-> << >>, code |-> 0]

NoStage ==
    [step |-> "start", A |-> 0, S |-> 0, first |-> 0, count |-> 0, made |-> 0,
     saved |-> << >>]

init_database ==
    /\ users = <<AdminUser>>
    /\ sentences = [i \in 1 .. Len(sample_sentences) |->
                        SentenceRow([target_language |-> sample_sentences[i]])]
    /\ user_languages = << >>
    /\ annotations = << >>
    /\ highlights = << >>
    /\ evaluations = << >>

Init ==
    /\ init_database
    /\ last = NoLast
    /\ reqs = [r \in 1 .. NumReqs |-> IdleReq]
    /\ stage = NoStage

----------------------------------------------------------------------------
(* Handlers: what one request does to the database, and its response       *)
(* A handler that commits once is one step, from its first query to its    *)
(* response.  register and create_evaluation call db.commit() more than    *)
(* once: what a commit stores is visible to every other request, so each   *)
(* of their queries and commits is a step of its own.  reqs holds the      *)
(* requests that have not answered yet.  last is the response of the step  *)
(* just taken, and NoLast after a step that does not answer.               *)

\* the body of a request that carries no UserCreate
NoBody ==
    [email |-> "", username |-> "", preferred_language |-> NoneVal,
     languages |-> << >>, is_evaluator |-> FALSE]

\* the UserLanguage rows register adds for a request body
RegisterLanguages(user_data) ==
    IF Len(user_data.languages) > 0 THEN user_data.languages
    ELSE IF user_data.preferred_language # NoneVal
         THEN <<user_data.preferred_language>> ELSE << >>

\* a request that has not answered yet: body is the UserCreate of a
\* register, row is the primary key its first commit stored
AtomicReq(op, pc, u, target, row, body, code) ==
    [op |-> op, pc |-> pc, caller |-> u, target |-> target, row |-> row,
     body |-> body, languages |-> RegisterLanguages(body), code |-> code,
     sentence_id |-> 0, highlights |-> << >>]

\* the place of request r is free
Free(r) == reqs[r].pc = "idle"

\* no request is between its first query and its response
NoRequestInFlight == \A r \in 1 .. NumReqs : reqs[r].pc \in {"idle", "done"}

\* the response of register
RegisterResponse(user_data, code, result) ==
    [Response("register", 0, 0, code, result)
        EXCEPT !.email = user_data.email, !.username = user_data.username]

\* POST /api/register, the pre-check: the query for a user of this email or
\* username, and the 400 if there is one
register_precheck(r, user_data) ==
    /\ Free(r)
    /\ IF UserExists(user_data.email, user_data.username)
       THEN /\ last' = RegisterResponse(user_data, HTTP_400_BAD_REQUEST, 0)
            /\ UNCHANGED reqs
       ELSE /\ reqs' = [reqs EXCEPT ![r] =
                   AtomicReq("register", "user_checked", 0, 0, 0, user_data, 0)]
            /\ last' = NoLast
    /\ UNCHANGED db

\* register, the first commit: the User
register_user_commit(r) ==
    /\ reqs[r].pc = "user_checked"
    /\ users' = Append(users,
          UserRow(reqs[r].body.email, reqs[r].body.username,
                  IF reqs[r].body.preferred_language # NoneVal
                  THEN reqs[r].body.preferred_language
                  ELSE IF reqs[r].body.languages # << >>
                       THEN reqs[r].body.languages[1] ELSE "tagalog",
                  reqs[r].body.is_evaluator))
    /\ reqs' = [reqs EXCEPT ![r].pc = "user_committed", ![r].row = Len(users) + 1]
    /\ last' = NoLast
    /\ UNCHANGED <<user_languages, sentences, annotations, highlights, evaluations>>

\* register, the first commit when another request has stored a user of
\* this email or username since the pre-check: a table that declares the
\* columns unique refuses the row, and the request answers 500.  Without
\* the constraint register_user_commit stores the second user.
register_user_conflict(r) ==
    /\ reqs[r].pc = "user_checked"
    /\ UserExists(reqs[r].body.email, reqs[r].body.username)
    /\ reqs' = [reqs EXCEPT ![r] = IdleReq]
    /\ last' = RegisterResponse(reqs[r].body, HTTP_500_INTERNAL, 0)
    /\ UNCHANGED db

\* register after its first commit: the UserLanguage rows, committed, and
\* the response
register_languages_commit(r) ==
    /\ reqs[r].pc = "user_committed"
    /\ user_languages' = user_languages \o
          [i \in 1 .. Len(reqs[r].languages) |->
              [user_id |-> reqs[r].row, language |-> reqs[r].languages[i]]]
    /\ reqs' = [reqs EXCEPT ![r] = IdleReq]
    /\ last' = RegisterResponse(reqs[r].body, HTTP_200_OK, reqs[r].row)
    /\ UNCHANGED <<users, sentences, annotations, highlights, evaluations>>

\* create_sentence open to every authenticated user
create_sentence_any_user(u, sentence_data) ==
    /\ sentences' = Append(sentences, SentenceRow(sentence_data))
    /\ last' = Response("create_sentence", u, 0, HTTP_200_OK, Len(sentences) + 1)
    /\ UNCHANGED <<users, user_languages, annotations, highlights, evaluations>>

\* POST /api/sentences
create_sentence(u, sentence_data) ==
    /\ IF ~get_current_admin_user(u)
       THEN /\ last' = Response("create_sentence", u, 0, HTTP_403_FORBIDDEN, 0)
            /\ UNCHANGED sentences
       ELSE /\ sentences' = Append(sentences, SentenceRow(sentence_data))
            /\ last' = Response("create_sentence", u, 0, HTTP_200_OK, Len(sentences) + 1)
    /\ UNCHANGED <<users, user_languages, annotations, highlights, evaluations>>

\* POST /api/admin/sentences/bulk
bulk_create_sentences(u, sentences_data) ==
    /\ IF ~get_current_admin_user(u)
       THEN /\ last' = Response("bulk_create_sentences", u, 0, HTTP_403_FORBIDDEN, 0)
            /\ UNCHANGED sentences
       ELSE /\ sentences' = sentences \o
                   [i \in 1 .. Len(sentences_data) |-> SentenceRow(sentences_data[i])]
            /\ last' = Response("bulk_create_sentences", u, 0, HTTP_200_OK,
                                Len(sentences_data))
    /\ UNCHANGED <<users, user_languages, annotations, highlights, evaluations>>

\* get_next_sentence without its filters: the first Sentence of the table
get_next_sentence_unfiltered(u) ==
    /\ last' = Response("get_next_sentence", u, 0, HTTP_200_OK,
                        IF Len(sentences) = 0 THEN 0 ELSE 1)
    /\ UNCHANGED db

\* GET /api/sentences/next
get_next_sentence(u) ==
    /\ last' = Response("get_next_sentence", u, 0, HTTP_200_OK, NextSentenceFor(u))
    /\ UNCHANGED db

\* the insert with the Annotation stored for the first user, not the caller
InsertAnnotation_first_user(u, annotation_data) ==
    /\ annotations' = Append(annotations, AnnotationRow(annotation_data.sentence_id, 1))
    /\ highlights' =
          IF Len(annotation_data.highlights) > 0
          THEN highlights \o NewHighlightRows(Len(annotations) + 1,
                                              annotation_data.highlights)
          ELSE highlights

\* create_annotation after its pre-check: the Annotation and its highlights,
\* added, flushed and committed together
InsertAnnotation(u, annotation_data) ==
    /\ annotations' = Append(annotations, AnnotationRow(annotation_data.sentence_id, u))
    /\ highlights' =
          IF Len(annotation_data.highlights) > 0
          THEN highlights \o NewHighlightRows(Len(annotations) + 1,
                                              annotation_data.highlights)
          ELSE highlights

\* create_annotation that refuses a sentence get_next_sentence would not
\* serve to the caller
create_annotation_served_only(u, annotation_data) ==
    /\ IF \/ HasAnnotation(u, annotation_data.sentence_id)
          \/ annotation_data.sentence_id \notin NextCandidates(u)
       THEN /\ last' = Response("create_annotation", u, annotation_data.sentence_id,
                                HTTP_400_BAD_REQUEST, 0)
            /\ UNCHANGED <<annotations, highlights>>
       ELSE /\ InsertAnnotation(u, annotation_data)
            /\ last' = [Response("create_annotation", u, annotation_data.sentence_id,
                                 AnnotationResponseCode(annotation_data.sentence_id),
                                 Len(annotations) + 1)
                           EXCEPT !.has_highlights = TRUE,
                                  !.highlights = annotation_data.highlights]
    /\ UNCHANGED <<users, user_languages, sentences, evaluations>>

\* create_annotation without its pre-check
create_annotation_unchecked(u, annotation_data) ==
    /\ InsertAnnotation(u, annotation_data)
    /\ last' = [Response("create_annotation", u, annotation_data.sentence_id,
                         AnnotationResponseCode(annotation_data.sentence_id),
                         Len(annotations) + 1)
                   EXCEPT !.has_highlights = TRUE,
                          !.highlights = annotation_data.highlights]
    /\ UNCHANGED <<users, user_languages, sentences, evaluations>>

\* POST /api/annotations
create_annotation(u, annotation_data) ==
    /\ IF HasAnnotation(u, annotation_data.sentence_id)
       THEN /\ last' = Response("create_annotation", u, annotation_data.sentence_id,
                                HTTP_400_BAD_REQUEST, 0)
            /\ UNCHANGED <<annotations, highlights>>
       ELSE /\ InsertAnnotation(u, annotation_data)
            /\ last' = [Response("create_annotation", u, annotation_data.sentence_id,
                                 AnnotationResponseCode(annotation_data.sentence_id),
                                 Len(annotations) + 1)
                           EXCEPT !.has_highlights = TRUE,
                                  !.highlights = annotation_data.highlights]
    /\ UNCHANGED <<users, user_languages, sentences, evaluations>>

\* create_legacy_annotation without its pre-check
create_legacy_annotation_unchecked(u, sentence_id) ==
    /\ annotations' = Append(annotations, AnnotationRow(sentence_id, u))
    /\ last' = Response("create_legacy_annotation", u, sentence_id,
                        AnnotationResponseCode(sentence_id), Len(annotations) + 1)
    /\ UNCHANGED <<users, user_languages, sentences, highlights, evaluations>>

\* POST /api/annotations/legacy
create_legacy_annotation(u, sentence_id) ==
    /\ IF HasAnnotation(u, sentence_id)
       THEN /\ last' = Response("create_legacy_annotation", u, sentence_id,
                                HTTP_400_BAD_REQUEST, 0)
            /\ UNCHANGED annotations
       ELSE /\ annotations' = Append(annotations, AnnotationRow(sentence_id, u))
            /\ last' = Response("create_legacy_annotation", u, sentence_id,
                                AnnotationResponseCode(sentence_id),
                                Len(annotations) + 1)
    /\ UNCHANGED <<users, user_languages, sentences, highlights, evaluations>>

\* update_annotation whose query filters on the id alone
update_annotation_any_owner(u, annotation_id, annotation_data) ==
    /\ IF annotation_id \notin Ids(annotations)
       THEN /\ last' = Response("update_annotation", u, annotation_id,
                                HTTP_404_NOT_FOUND, 0)
            /\ UNCHANGED <<annotations, highlights>>
       ELSE /\ annotations' =
                 IF annotation_data.annotation_status = Unset THEN annotations
                 ELSE [annotations EXCEPT ![annotation_id].annotation_status =
                                              annotation_data.annotation_status]
            /\ highlights' =
                 IF annotation_data.has_highlights
                 THEN DeleteHighlights(annotation_id) \o
                      NewHighlightRows(annotation_id, annotation_data.highlights)
                 ELSE highlights
            /\ last' = [Response("update_annotation", u, annotation_id,
                                 AnnotationResponseCode(annotations[annotation_id].sentence_id),
                                 annotation_id)
                           EXCEPT !.has_highlights = annotation_data.has_highlights,
                                  !.highlights = annotation_data.highlights,
                                  !.annotation_status = annotation_data.annotation_status]
    /\ UNCHANGED <<users, user_languages, sentences, evaluations>>

\* update_annotation that replaces the highlights also when the request
\* gives none
update_annotation_drop_highlights(u, annotation_id, annotation_data) ==
    /\ IF ~(/\ annotation_id \in Ids(annotations)
            /\ annotations[annotation_id].annotator_id = u)
       THEN /\ last' = Response("update_annotation", u, annotation_id,
                                HTTP_404_NOT_FOUND, 0)
            /\ UNCHANGED <<annotations, highlights>>
       ELSE /\ annotations' =
                 IF annotation_data.annotation_status = Unset THEN annotations
                 ELSE [annotations EXCEPT ![annotation_id].annotation_status =
                                              annotation_data.annotation_status]
            /\ highlights' =
                 DeleteHighlights(annotation_id) \o
                 NewHighlightRows(annotation_id, annotation_data.highlights)
            /\ last' = [Response("update_annotation", u, annotation_id,
                                 AnnotationResponseCode(annotations[annotation_id].sentence_id),
                                 annotation_id)
                           EXCEPT !.has_highlights = annotation_data.has_highlights,
                                  !.highlights = annotation_data.highlights,
                                  !.annotation_status = annotation_data.annotation_status]
    /\ UNCHANGED <<users, user_languages, sentences, evaluations>>

\* PUT /api/annotations/{annotation_id}
update_annotation(u, annotation_id, annotation_data) ==
    /\ IF ~(/\ annotation_id \in Ids(annotations)
            /\ annotations[annotation_id].annotator_id = u)
       THEN /\ last' = Response("update_annotation", u, annotation_id,
                                HTTP_404_NOT_FOUND, 0)
            /\ UNCHANGED <<annotations, highlights>>
       ELSE /\ annotations' =
                 IF annotation_data.annotation_status = Unset THEN annotations
                 ELSE [annotations EXCEPT ![annotation_id].annotation_status =
                                              annotation_data.annotation_status]
            /\ highlights' =
                 IF annotation_data.has_highlights
                 THEN DeleteHighlights(annotation_id) \o
                      NewHighlightRows(annotation_id, annotation_data.highlights)
                 ELSE highlights
            /\ last' = [Response("update_annotation", u, annotation_id,
                                 AnnotationResponseCode(annotations[annotation_id].sentence_id),
                                 annotation_id)
                           EXCEPT !.has_highlights = annotation_data.has_highlights,
                                  !.highlights = annotation_data.highlights,
                                  !.annotation_status = annotation_data.annotation_status]
    /\ UNCHANGED <<users, user_languages, sentences, evaluations>>

\* toggle_user_evaluator_role that grants the role instead of negating it
toggle_user_evaluator_role_grant(u, user_id) ==
    /\ IF ~get_current_admin_user(u)
       THEN /\ last' = Response("toggle_user_evaluator_role", u, user_id,
                                HTTP_403_FORBIDDEN, 0)
            /\ UNCHANGED users
       ELSE IF user_id \notin Ids(users)
       THEN /\ last' = Response("toggle_user_evaluator_role", u, user_id,
                                HTTP_404_NOT_FOUND, 0)
            /\ UNCHANGED users
       ELSE /\ users' = [users EXCEPT ![user_id].is_evaluator = TRUE]
            /\ last' = Response("toggle_user_evaluator_role", u, user_id,
                                HTTP_200_OK, user_id)
    /\ UNCHANGED <<user_languages, sentences, annotations, highlights, evaluations>>

\* PUT /api/admin/users/{user_id}/toggle-evaluator
toggle_user_evaluator_role(u, user_id) ==
    /\ IF ~get_current_admin_user(u)
       THEN /\ last' = Response("toggle_user_evaluator_role", u, user_id,
                                HTTP_403_FORBIDDEN, 0)
            /\ UNCHANGED users
       ELSE IF user_id \notin Ids(users)
       THEN /\ last' = Response("toggle_user_evaluator_role", u, user_id,
                                HTTP_404_NOT_FOUND, 0)
            /\ UNCHANGED users
       ELSE /\ users' = [users EXCEPT ![user_id].is_evaluator =
                                          ~users[user_id].is_evaluator]
            /\ last' = Response("toggle_user_evaluator_role", u, user_id,
                                HTTP_200_OK, user_id)
    /\ UNCHANGED <<user_languages, sentences, annotations, highlights, evaluations>>

\* the response of an evaluation handler after its commits: building it
\* fails when the annotation, or the annotation's sentence, does not exist
EvaluationResponseCode(annotation_id) ==
    IF /\ annotation_id \in Ids(annotations)
       /\ annotations[annotation_id].sentence_id \in Ids(sentences)
    THEN HTTP_200_OK ELSE HTTP_500_INTERNAL

\* create_evaluation without its pre-check
create_evaluation_precheck_unchecked(r, u, annotation_id) ==
    /\ Free(r)
    /\ IF ~get_current_evaluator_user(u)
       THEN /\ last' = Response("create_evaluation", u, annotation_id,
                                HTTP_403_FORBIDDEN, 0)
            /\ UNCHANGED reqs
       ELSE /\ reqs' = [reqs EXCEPT ![r] =
                   AtomicReq("create_evaluation", "evaluation_checked", u,
                             annotation_id, 0, NoBody, 0)]
            /\ last' = NoLast
    /\ UNCHANGED db

\* POST /api/evaluations, the guard and the pre-check: the query for an
\* evaluation of this annotation by the caller, and the 400 if there is one
create_evaluation_precheck(r, u, annotation_id) ==
    /\ Free(r)
    /\ IF ~get_current_evaluator_user(u)
       THEN /\ last' = Response("create_evaluation", u, annotation_id,
                                HTTP_403_FORBIDDEN, 0)
            /\ UNCHANGED reqs
       ELSE IF HasEvaluation(u, annotation_id)
       THEN /\ last' = Response("create_evaluation", u, annotation_id,
                                HTTP_400_BAD_REQUEST, 0)
            /\ UNCHANGED reqs
       ELSE /\ reqs' = [reqs EXCEPT ![r] =
                   AtomicReq("create_evaluation", "evaluation_checked", u,
                             annotation_id, 0, NoBody, 0)]
            /\ last' = NoLast
    /\ UNCHANGED db

\* create_evaluation, the first commit: the Evaluation
create_evaluation_insert_commit(r) ==
    /\ reqs[r].pc = "evaluation_checked"
    /\ evaluations' = Append(evaluations, EvaluationRow(reqs[r].target, reqs[r].caller))
    /\ reqs' = [reqs EXCEPT ![r].pc = "evaluation_committed",
                            ![r].row = Len(evaluations) + 1]
    /\ last' = NoLast
    /\ UNCHANGED <<users, user_languages, sentences, annotations, highlights>>

\* create_evaluation after its first commit, the lookup: the query for the
\* Annotation that is evaluated
create_evaluation_lookup(r) ==
    /\ reqs[r].pc = "evaluation_committed"
    /\ reqs' = [reqs EXCEPT ![r].pc =
          IF reqs[r].target \in Ids(annotations)
          THEN "annotation_found" ELSE "evaluation_responding"]
    /\ last' = NoLast
    /\ UNCHANGED db

\* create_evaluation, the second commit: the status of the Annotation the
\* lookup found
create_evaluation_status_commit(r) ==
    /\ reqs[r].pc = "annotation_found"
    /\ annotations' =
          [annotations EXCEPT ![reqs[r].target].annotation_status = "reviewed"]
    /\ reqs' = [reqs EXCEPT ![r].pc = "evaluation_responding"]
    /\ last' = NoLast
    /\ UNCHANGED <<users, user_languages, sentences, highlights, evaluations>>

\* create_evaluation, the response: it loads the Annotation of the
\* Evaluation and its Sentence again, as they are stored by then, whether
\* or not the lookup found the Annotation
create_evaluation_response(r) ==
    /\ reqs[r].pc = "evaluation_responding"
    /\ reqs' = [reqs EXCEPT ![r] = IdleReq]
    /\ last' = Response("create_evaluation", reqs[r].caller, reqs[r].target,
                        EvaluationResponseCode(reqs[r].target), reqs[r].row)
    /\ UNCHANGED db

\* PUT /api/evaluations/{evaluation_id}
update_evaluation(u, evaluation_id, evaluation_data) ==
    /\ IF ~get_current_evaluator_user(u)
       THEN /\ last' = Response("update_evaluation", u, evaluation_id,
                                HTTP_403_FORBIDDEN, 0)
            /\ UNCHANGED evaluations
       ELSE IF ~(/\ evaluation_id \in Ids(evaluations)
                 /\ evaluations[evaluation_id].evaluator_id = u)
       THEN /\ last' = Response("update_evaluation", u, evaluation_id,
                                HTTP_404_NOT_FOUND, 0)
            /\ UNCHANGED evaluations
       ELSE /\ evaluations' =
                 IF evaluation_data.evaluation_status = Unset THEN evaluations
                 ELSE [evaluations EXCEPT ![evaluation_id].evaluation_status =
                                              evaluation_data.evaluation_status]
            /\ last' = Response("update_evaluation", u, evaluation_id,
                                EvaluationResponseCode(evaluations[evaluation_id].annotation_id),
                                evaluation_id)
    /\ UNCHANGED <<users, user_languages, sentences, annotations, highlights>>

\* GET /api/sentences/unannotated
get_unannotated_sentences(u, skip, limit) ==
    /\ last' = [Response("get_unannotated_sentences", u, 0, HTTP_200_OK, 0)
                   EXCEPT !.skip = skip, !.limit = limit,
                          !.rows = Paginate(UnannotatedSentences(u), skip, limit)]
    /\ UNCHANGED db

\* GET /api/sentences/{sentence_id}
get_sentence(u, sentence_id) ==
    /\ last' = IF sentence_id \notin Ids(sentences)
               THEN Response("get_sentence", u, sentence_id, HTTP_404_NOT_FOUND, 0)
               ELSE Response("get_sentence", u, sentence_id, HTTP_200_OK, sentence_id)
    /\ UNCHANGED db

\* GET /api/evaluations/pending: the page of the query, and the response
\* built from it, which fails when a row's sentence does not exist
PendingEvaluationsResponse(u, skip, limit) ==
    LET page == Paginate(PendingAnnotations(u), skip, limit)
    IN  IF ~get_current_evaluator_user(u)
        THEN [Response("get_pending_evaluations", u, 0, HTTP_403_FORBIDDEN, 0)
                 EXCEPT !.skip = skip, !.limit = limit]
        ELSE IF \E i \in 1 .. Len(page) :
                   annotations[page[i]].sentence_id \notin Ids(sentences)
        THEN [Response("get_pending_evaluations", u, 0, HTTP_500_INTERNAL, 0)
                 EXCEPT !.skip = skip, !.limit = limit]
        ELSE [Response("get_pending_evaluations", u, 0, HTTP_200_OK, 0)
                 EXCEPT !.skip = skip, !.limit = limit, !.rows = page]

get_pending_evaluations(u, skip, limit) ==
    /\ last' = PendingEvaluationsResponse(u, skip, limit)
    /\ UNCHANGED db

\* GET /api/evaluator/stats
get_evaluator_stats(u) ==
    /\ last' =
          IF ~get_current_evaluator_user(u)
          THEN Response("get_evaluator_stats", u, 0, HTTP_403_FORBIDDEN, 0)
          ELSE [Response("get_evaluator_stats", u, 0, HTTP_200_OK, 0)
                   EXCEPT !.stats = EvaluatorStats(u)]
    /\ UNCHANGED db

\* update_user_languages whose delete has no filter on the user
update_user_languages_all(u, languages) ==
    /\ user_languages' =
          [i \in 1 .. Len(languages) |-> [user_id |-> u, language |-> languages[i]]]
    /\ users' = IF Len(languages) > 0
                THEN [users EXCEPT ![u].preferred_language = languages[1]]
                ELSE users
    /\ last' = [Response("update_user_languages", u, u, HTTP_200_OK, Len(languages))
                   EXCEPT !.languages = languages]
    /\ UNCHANGED <<sentences, annotations, highlights, evaluations>>

\* update_user_languages that leaves preferred_language as it is
update_user_languages_keep_preferred(u, languages) ==
    /\ user_languages' =
          SelectRows(user_languages,
                     [i \in Ids(user_languages) |-> user_languages[i].user_id # u], 1)
          \o [i \in 1 .. Len(languages) |-> [user_id |-> u, language |-> languages[i]]]
    /\ last' = [Response("update_user_languages", u, u, HTTP_200_OK, Len(languages))
                   EXCEPT !.languages = languages]
    /\ UNCHANGED <<users, sentences, annotations, highlights, evaluations>>

\* POST /api/me/languages
update_user_languages(u, languages) ==
    /\ user_languages' =
          SelectRows(user_languages,
                     [i \in Ids(user_languages) |-> user_languages[i].user_id # u], 1)
          \o [i \in 1 .. Len(languages) |-> [user_id |-> u, language |-> languages[i]]]
    /\ users' = IF Len(languages) > 0
                THEN [users EXCEPT ![u].preferred_language = languages[1]]
                ELSE users
    /\ last' = [Response("update_user_languages", u, u, HTTP_200_OK, Len(languages))
                   EXCEPT !.languages = languages]
    /\ UNCHANGED <<sentences, annotations, highlights, evaluations>>

----------------------------------------------------------------------------
(* Requests: a client, already authenticated as user u, sends one request  *)
(* with a body drawn from the given set.  A request is sent when no        *)
(* request is in flight, and is served to its response, commit by commit,  *)
(* before the next is sent (in SpecConcurrent and SpecAtomic requests      *)
(* overlap); it takes the first free place of reqs.  A request that would  *)
(* make a table longer than its bound is not sent.                         *)

Register(bodies) ==
    /\ \/ /\ NoRequestInFlight
          /\ \E r \in 1 .. NumReqs, user_data \in bodies :
                /\ \A q \in 1 .. r - 1 : ~Free(q)
                /\ UserExists(user_data.email, user_data.username)
                      \/ Len(users) < MaxUsers
                /\ register_precheck(r, user_data)
       \/ \E r \in 1 .. NumReqs : register_user_commit(r)
       \/ \E r \in 1 .. NumReqs : register_languages_commit(r)
    /\ UNCHANGED stage

CreateSentence(bodies) ==
    /\ NoRequestInFlight
    /\ \E u \in Ids(users), sentence_data \in bodies : create_sentence(u, sentence_data)
    /\ Len(sentences') <= MaxSentences
    /\ UNCHANGED <<reqs, stage>>

BulkCreateSentences(bodies) ==
    /\ NoRequestInFlight
    /\ \E u \in Ids(users), sentences_data \in SeqsUpTo(bodies, MaxBulk) :
          bulk_create_sentences(u, sentences_data)
    /\ Len(sentences') <= MaxSentences
    /\ UNCHANGED <<reqs, stage>>

GetNextSentence ==
    /\ NoRequestInFlight
    /\ \E u \in Ids(users) : get_next_sentence(u)
    /\ UNCHANGED <<reqs, stage>>

\* sentence ids a request may name: the first sample sentence of each of
\* the two languages users register with, and one that is not stored
NamedSentences == {FirstFrench, FirstTagalog}
SentenceIds == NamedSentences \cup {Len(sentences) + 1}
AnnotationIds == 1 .. Len(annotations) + 1
EvaluationIds == 1 .. Len(evaluations) + 1
UserIds == 1 .. Len(users) + 1

CreateAnnotation(lists) ==
    /\ NoRequestInFlight
    /\ \E u \in Ids(users), sentence_id \in SentenceIds, hl \in lists :
          create_annotation(u, [sentence_id |-> sentence_id, highlights |-> hl])
    /\ Len(annotations') <= MaxAnnotations
    /\ UNCHANGED <<reqs, stage>>

\* create_annotation requests that name stored sentences only
CreateAnnotationOf(sentence_ids, lists) ==
    /\ NoRequestInFlight
    /\ \E u \in Ids(users), sentence_id \in sentence_ids, hl \in lists :
          create_annotation(u, [sentence_id |-> sentence_id, highlights |-> hl])
    /\ Len(annotations') <= MaxAnnotations
    /\ UNCHANGED <<reqs, stage>>

CreateLegacyAnnotation(sentence_ids) ==
    /\ NoRequestInFlight
    /\ \E u \in Ids(users), sentence_id \in sentence_ids :
          create_legacy_annotation(u, sentence_id)
    /\ Len(annotations') <= MaxAnnotations
    /\ UNCHANGED <<reqs, stage>>

UpdateAnnotation(bodies) ==
    /\ NoRequestInFlight
    /\ \E u \in Ids(users), annotation_id \in AnnotationIds, annotation_data \in bodies :
          update_annotation(u, annotation_id, annotation_data)
    /\ UNCHANGED <<reqs, stage>>

ToggleUserEvaluatorRole ==
    /\ NoRequestInFlight
    /\ \E u \in Ids(users), user_id \in UserIds : toggle_user_evaluator_role(u, user_id)
    /\ UNCHANGED <<reqs, stage>>

\* create_evaluation requests that name the given annotations
CreateEvaluationOf(annotation_ids) ==
    /\ \/ /\ NoRequestInFlight
          /\ \E r \in 1 .. NumReqs, u \in Ids(users), annotation_id \in annotation_ids :
                /\ \A q \in 1 .. r - 1 : ~Free(q)
                /\ \/ ~get_current_evaluator_user(u)
                   \/ HasEvaluation(u, annotation_id)
                   \/ Len(evaluations) < MaxEvaluations
                /\ create_evaluation_precheck(r, u, annotation_id)
       \/ \E r \in 1 .. NumReqs : create_evaluation_insert_commit(r)
       \/ \E r \in 1 .. NumReqs : create_evaluation_lookup(r)
       \/ \E r \in 1 .. NumReqs : create_evaluation_status_commit(r)
       \/ \E r \in 1 .. NumReqs : create_evaluation_response(r)
    /\ UNCHANGED stage

CreateEvaluation == CreateEvaluationOf(AnnotationIds)

UpdateEvaluation(bodies) ==
    /\ NoRequestInFlight
    /\ \E u \in Ids(users), evaluation_id \in EvaluationIds, evaluation_data \in bodies :
          update_evaluation(u, evaluation_id, evaluation_data)
    /\ UNCHANGED <<reqs, stage>>

GetSentence ==
    /\ NoRequestInFlight
    /\ \E u \in Ids(users), sentence_id \in SentenceIds : get_sentence(u, sentence_id)
    /\ UNCHANGED <<reqs, stage>>

\* offsets and limits a request may give for the sentences: the first
\* offsets, the first limits and a limit of more than the rows
Skips == 0 .. 2
Limits == (0 .. 2) \cup {Len(sentences) + 1}

GetUnannotatedSentences ==
    /\ NoRequestInFlight
    /\ \E u \in Ids(users), skip \in Skips, limit \in Limits :
          get_unannotated_sentences(u, skip, limit)
    /\ UNCHANGED <<reqs, stage>>

\* offsets and limits for the annotations: up to one more than the rows
GetPendingEvaluations ==
    /\ NoRequestInFlight
    /\ \E u \in Ids(users), skip \in 0 .. Len(annotations),
          limit \in 0 .. Len(annotations) + 1 :
          get_pending_evaluations(u, skip, limit)
    /\ UNCHANGED <<reqs, stage>>

GetEvaluatorStats ==
    /\ NoRequestInFlight
    /\ \E u \in Ids(users) : get_evaluator_stats(u)
    /\ UNCHANGED <<reqs, stage>>

UpdateUserLanguages(lists) ==
    /\ NoRequestInFlight
    /\ \E u \in Ids(users), languages \in lists : update_user_languages(u, languages)
    /\ UNCHANGED <<reqs, stage>>

----------------------------------------------------------------------------
(* Spec: the annotation workflow under non-overlapping requests.  Users    *)
(* register, admins add sentences, users fetch their next sentence and     *)
(* create and update annotations.                                          *)

\* at most one highlight per request here (SpecHighlights has the lists)
ShortLists == { hl \in HighlightLists : Len(hl) <= 1 /\ \A i \in 1 .. Len(hl) : hl[i].highlighted_text = "le" /\ hl[i].comment = "c" }

AnnotatorBodies ==
    { d \in UserCreate : ~d.is_evaluator /\ Len(d.languages) <= 1 }

WorkflowUpdates ==
    { d \in AnnotationUpdate : d.annotation_status \in {Unset, "completed"}
                               /\ d.highlights \in ShortLists }

Next ==
    \/ Register(AnnotatorBodies)
    \/ CreateSentence(SentenceCreate)
    \/ GetNextSentence
    \/ CreateAnnotation(ShortLists)
    \/ CreateLegacyAnnotation(SentenceIds)
    \/ UpdateAnnotation(WorkflowUpdates)

Spec == Init /\ [][Next]_vars

----------------------------------------------------------------------------
(* SpecHighlights: users create annotations and replace their highlights,  *)
(* with every list of up to MaxHighlights highlights.                      *)

HighlightUpdates == { d \in AnnotationUpdate : d.annotation_status = Unset }

FrenchBodies ==
    { d \in UserCreate : ~d.is_evaluator /\ d.preferred_language = "fr"
                         /\ d.languages = << >> }

NextHighlights ==
    \/ Register(FrenchBodies)
    \/ CreateAnnotation(HighlightLists)
    \/ UpdateAnnotation(HighlightUpdates)

SpecHighlights == Init /\ [][NextHighlights]_vars

----------------------------------------------------------------------------
(* SpecEvaluation: the review workflow.  Evaluators register or are made   *)
(* by the admin, users annotate the seeded sentence, evaluators evaluate,  *)
(* and owners set the status of their annotation.                          *)

EvaluatorBodies ==
    { d \in UserCreate : d.is_evaluator /\ d.preferred_language = NoneVal
                         /\ d.languages = << >> }

StatusUpdates ==
    { d \in AnnotationUpdate : d.annotation_status \in {"completed", "in_progress"}
                               /\ ~d.has_highlights }

NextEvaluation ==
    \/ Register(EvaluatorBodies)
    \/ ToggleUserEvaluatorRole
    \/ CreateLegacyAnnotation(NamedSentences)
    \/ UpdateAnnotation(StatusUpdates)
    \/ CreateEvaluation

SpecEvaluation == Init /\ [][NextEvaluation]_vars

----------------------------------------------------------------------------
(* SpecRoles: the role-gated endpoints, called by users with and without   *)
(* the role.                                                               *)

PlainBodies ==
    { d \in UserCreate : d.preferred_language = NoneVal /\ d.languages = << >> }

NextRoles ==
    \/ Register(PlainBodies)
    \/ ToggleUserEvaluatorRole
    \/ CreateSentence(SentenceCreate)
    \/ BulkCreateSentences(SentenceCreate)
    \/ CreateEvaluation
    \/ UpdateEvaluation(EvaluationUpdate)

SpecRoles == Init /\ [][NextRoles]_vars

----------------------------------------------------------------------------
(* SpecScenario: the scenario of the testable properties, step by step.    *)
(* User A registers with language "fr", an admin creates sentence S in     *)
(* "fr", A asks for the next sentence, annotates S and asks again.  Other  *)
(* annotations may be created in between.  stage holds the step reached,   *)
(* A, S and the answer to A's first question.  The scenario has its own    *)
(* bound on the annotations, MaxScenarioAnnotations, so that A can         *)
(* annotate the sample sentences in "fr" before S.                         *)

ScenarioBodies ==
    { d \in UserCreate :
        /\ ~d.is_evaluator
        /\ \/ d.preferred_language = "fr"
           \/ d.preferred_language = NoneVal /\ d.languages = <<"fr", "tagalog">> }

ScRegister ==
    /\ stage.step = "start"
    /\ \/ /\ NoRequestInFlight
          /\ Len(users) < MaxUsers
          /\ \E r \in 1 .. NumReqs, user_data \in ScenarioBodies :
                /\ \A q \in 1 .. r - 1 : ~Free(q)
                /\ ~UserExists(user_data.email, user_data.username)
                /\ register_precheck(r, user_data)
          /\ UNCHANGED stage
       \/ /\ \E r \in 1 .. NumReqs : register_user_commit(r)
          /\ UNCHANGED stage
       \/ /\ \E r \in 1 .. NumReqs : register_languages_commit(r)
          /\ stage' = [stage EXCEPT !.step = "registered", !.A = last'.result]

ScCreateSentence ==
    /\ NoRequestInFlight
    /\ stage.step = "registered"
    /\ \E u \in Ids(users) :
          /\ users[u].is_admin
          /\ create_sentence(u, [target_language |-> "fr"])
    /\ Len(sentences') <= MaxSentences
    /\ stage' = [stage EXCEPT !.step = "created", !.S = Len(sentences')]
    /\ UNCHANGED reqs

ScFirstNextSentence ==
    /\ NoRequestInFlight
    /\ stage.step = "created"
    /\ get_next_sentence(stage.A)
    /\ stage' = [stage EXCEPT !.step = "asked", !.first = last'.result]
    /\ UNCHANGED reqs

ScCreateAnnotation ==
    /\ NoRequestInFlight
    /\ stage.step = "asked"
    /\ \E hl \in ShortLists :
          create_annotation(stage.A, [sentence_id |-> stage.S, highlights |-> hl])
    /\ Len(annotations') <= MaxScenarioAnnotations
    /\ stage' = [stage EXCEPT !.step = "annotated"]
    /\ UNCHANGED reqs

ScSecondNextSentence ==
    /\ NoRequestInFlight
    /\ stage.step = "annotated"
    /\ get_next_sentence(stage.A)
    /\ stage' = [stage EXCEPT !.step = "asked_again"]
    /\ UNCHANGED reqs

\* any other annotation, at any point: by A, of the sentence A would be
\* given next, or by another user, of a sentence that requests name or of S
ScOtherAnnotation ==
    /\ NoRequestInFlight
    /\ \E u \in Ids(users), sentence_id \in Ids(sentences) :
          /\ <<u, sentence_id>> # <<stage.A, stage.S>>
          /\ IF u = stage.A THEN sentence_id = NextSentenceFor(u)
                            ELSE sentence_id \in NamedSentences \cup {stage.S}
          /\ create_legacy_annotation(u, sentence_id)
    /\ Len(annotations') <= MaxScenarioAnnotations
    /\ UNCHANGED <<reqs, stage>>

NextScenario ==
    \/ ScRegister
    \/ ScCreateSentence
    \/ ScFirstNextSentence
    \/ ScCreateAnnotation
    \/ ScSecondNextSentence
    \/ ScOtherAnnotation

SpecScenario == Init /\ [][NextScenario]_vars

----------------------------------------------------------------------------
(* SpecConcurrent: overlapping create_annotation requests.  Each request   *)
(* has its own database session; its pre-check and its commit are separate *)
(* steps, and steps of different requests interleave.                      *)

\* create_annotation with a uniqueness constraint on the table: the commit
\* of a duplicate fails
create_annotation_commit_unique(r) ==
    /\ reqs[r].pc = "checked"
    /\ IF HasAnnotation(reqs[r].caller, reqs[r].sentence_id)
       THEN /\ reqs' = [reqs EXCEPT ![r].pc = "done", ![r].code = HTTP_500_INTERNAL]
            /\ UNCHANGED <<annotations, highlights>>
       ELSE /\ InsertAnnotation(reqs[r].caller,
                                [sentence_id |-> reqs[r].sentence_id,
                                 highlights |-> reqs[r].highlights])
            /\ reqs' = [reqs EXCEPT ![r].pc = "done",
                                    ![r].code = AnnotationResponseCode(reqs[r].sentence_id)]
    /\ UNCHANGED <<users, user_languages, sentences, evaluations, last, stage>>

\* create_annotation up to its pre-check: the query for an existing
\* annotation, and the 400 if there is one
create_annotation_precheck(r, u, annotation_data) ==
    /\ reqs[r].pc = "idle"
    /\ reqs' = [reqs EXCEPT ![r] =
          [pc |-> IF HasAnnotation(u, annotation_data.sentence_id)
                  THEN "done" ELSE "checked",
           caller |-> u,
           sentence_id |-> annotation_data.sentence_id,
           highlights |-> annotation_data.highlights,
           code |-> IF HasAnnotation(u, annotation_data.sentence_id)
                    THEN HTTP_400_BAD_REQUEST ELSE 0]]
    /\ UNCHANGED <<db, last, stage>>

\* create_annotation after its pre-check: add, flush, add the highlights,
\* commit, respond
create_annotation_commit(r) ==
    /\ reqs[r].pc = "checked"
    /\ InsertAnnotation(reqs[r].caller,
                        [sentence_id |-> reqs[r].sentence_id,
                         highlights |-> reqs[r].highlights])
    /\ reqs' = [reqs EXCEPT ![r].pc = "done",
                            ![r].code = AnnotationResponseCode(reqs[r].sentence_id)]
    /\ UNCHANGED <<users, user_languages, sentences, evaluations, last, stage>>

CcPrecheck ==
    \E r \in 1 .. NumReqs, u \in Ids(users), sentence_id \in NamedSentences,
       hl \in ShortLists :
         create_annotation_precheck(r, u, [sentence_id |-> sentence_id, highlights |-> hl])

CcCommit ==
    /\ \E r \in 1 .. NumReqs : create_annotation_commit(r)
    /\ Len(annotations') <= MaxAnnotations

NextConcurrent ==
    \/ Register(FrenchBodies)
    \/ CcPrecheck
    \/ CcCommit

SpecConcurrent == Init /\ [][NextConcurrent]_vars

----------------------------------------------------------------------------
(* SpecLifecycle: the handlers that write rows of users, to the tables of  *)
(* users, user languages, annotations, highlights and evaluations.  Users  *)
(* register as evaluators with one UserLanguage row, annotate the stored   *)
(* sentences, replace their highlights and their languages, and evaluate.  *)

\* every registered user gets one UserLanguage row
LifecycleBodies ==
    { d \in UserCreate : d.is_evaluator /\ d.preferred_language = "fr"
                         /\ d.languages = << >> }

LifecycleUpdates ==
    { d \in AnnotationUpdate : d.annotation_status = Unset
                               /\ d.highlights \in ShortLists }

LifecycleLanguages == { << >>, <<"tagalog">> }

NextLifecycle ==
    \/ Register(LifecycleBodies)
    \/ CreateAnnotationOf({FirstFrench}, ShortLists)
    \/ UpdateAnnotation(LifecycleUpdates)
    \/ CreateEvaluation
    \/ UpdateEvaluation({[evaluation_status |-> "draft"]})
    \/ UpdateUserLanguages(LifecycleLanguages)

SpecLifecycle == Init /\ [][NextLifecycle]_vars

----------------------------------------------------------------------------
(* SpecAtomic: register, create_legacy_annotation and create_evaluation,   *)
(* query by query and commit by commit.  Each handler reads the database,  *)
(* raises or goes on, and writes; register and create_evaluation call      *)
(* db.commit() twice.  What is committed is stored and visible to every    *)
(* other request, so the pre-check and each commit are steps of their own  *)
(* and steps of different requests interleave.  create_evaluation reads    *)
(* the Annotation twice more after its first commit, for the status write  *)
(* and for the response, and each read sees what is committed by then.     *)
(* Requests are taken while others are in flight; a request that has       *)
(* answered leaves its place in reqs to the next one.                      *)

\* create_legacy_annotation, the pre-check: the query for an annotation of
\* this sentence by the caller, and the 400 if there is one
create_legacy_annotation_precheck(r, u, sentence_id) ==
    /\ Free(r)
    /\ IF HasAnnotation(u, sentence_id)
       THEN /\ last' = Response("create_legacy_annotation", u, sentence_id,
                                HTTP_400_BAD_REQUEST, 0)
            /\ UNCHANGED reqs
       ELSE /\ reqs' = [reqs EXCEPT ![r] =
                   AtomicReq("create_legacy_annotation", "annotation_checked", u,
                             sentence_id, 0, NoBody, 0)]
            /\ last' = NoLast
    /\ UNCHANGED db

\* create_legacy_annotation, the commit: the Annotation, and the response
create_legacy_annotation_commit(r) ==
    /\ reqs[r].pc = "annotation_checked"
    /\ annotations' = Append(annotations, AnnotationRow(reqs[r].target, reqs[r].caller))
    /\ reqs' = [reqs EXCEPT ![r] = IdleReq]
    /\ last' = Response("create_legacy_annotation", reqs[r].caller, reqs[r].target,
                        AnnotationResponseCode(reqs[r].target), Len(annotations) + 1)
    /\ UNCHANGED <<users, user_languages, sentences, highlights, evaluations>>

\* registrations of evaluators, with and without UserLanguage rows to add
AtomicBodies ==
    { d \in UserCreate : /\ d.is_evaluator
                         /\ d.email = "a@example.com"
                         /\ d.username = "a"
                         /\ d.preferred_language = NoneVal
                         /\ d.languages # <<"tagalog">> }

AtRegisterPrecheck ==
    /\ \E r \in 1 .. NumReqs, user_data \in AtomicBodies : register_precheck(r, user_data)
    /\ UNCHANGED stage

AtRegisterUser ==
    /\ \E r \in 1 .. NumReqs : register_user_commit(r)
    /\ Len(users') <= MaxUsers
    /\ UNCHANGED stage

AtRegisterConflict ==
    /\ \E r \in 1 .. NumReqs : register_user_conflict(r)
    /\ UNCHANGED stage

AtRegisterLanguages ==
    /\ \E r \in 1 .. NumReqs : register_languages_commit(r)
    /\ UNCHANGED stage

AtCreateLegacyAnnotationPrecheck ==
    /\ \E r \in 1 .. NumReqs, u \in Ids(users) :
           create_legacy_annotation_precheck(r, u, FirstFrench)
    /\ UNCHANGED stage

AtCreateLegacyAnnotationCommit ==
    /\ \E r \in 1 .. NumReqs : create_legacy_annotation_commit(r)
    /\ Len(annotations') <= MaxAnnotations
    /\ UNCHANGED stage

\* the first annotation and one that is never stored
AtomicAnnotationIds == {1, MaxAnnotations + 1}

AtCreateEvaluationPrecheck ==
    /\ \E r \in 1 .. NumReqs, u \in Ids(users), annotation_id \in AtomicAnnotationIds :
           create_evaluation_precheck(r, u, annotation_id)
    /\ UNCHANGED stage

AtCreateEvaluationInsert ==
    /\ \E r \in 1 .. NumReqs : create_evaluation_insert_commit(r)
    /\ Len(evaluations') <= MaxEvaluations
    /\ UNCHANGED stage

AtCreateEvaluationLookup ==
    /\ \E r \in 1 .. NumReqs : create_evaluation_lookup(r)
    /\ UNCHANGED stage

AtCreateEvaluationStatus ==
    /\ \E r \in 1 .. NumReqs : create_evaluation_status_commit(r)
    /\ UNCHANGED stage

AtCreateEvaluationResponse ==
    /\ \E r \in 1 .. NumReqs : create_evaluation_response(r)
    /\ UNCHANGED stage

NextAtomic ==
    \/ AtRegisterPrecheck
    \/ AtRegisterUser
    \/ AtRegisterConflict
    \/ AtRegisterLanguages
    \/ AtCreateLegacyAnnotationPrecheck
    \/ AtCreateLegacyAnnotationCommit
    \/ AtCreateEvaluationPrecheck
    \/ AtCreateEvaluationInsert
    \/ AtCreateEvaluationLookup
    \/ AtCreateEvaluationStatus
    \/ AtCreateEvaluationResponse

SpecAtomic == Init /\ [][NextAtomic]_vars

----------------------------------------------------------------------------
(* SpecReview: what evaluators are shown.  Evaluators register or are made *)
(* by the admin; users annotate sentences, stored or not; evaluators       *)
(* evaluate; owners set their annotation back to "completed"; evaluators   *)
(* list their pending annotations.                                         *)

CompletedUpdates ==
    { d \in AnnotationUpdate : d.annotation_status = "completed" /\ ~d.has_highlights }

NextReview ==
    \/ Register(EvaluatorBodies)
    \/ ToggleUserEvaluatorRole
    \/ CreateLegacyAnnotation(SentenceIds)
    \/ UpdateAnnotation(CompletedUpdates)
    \/ CreateEvaluationOf(Ids(annotations))
    \/ GetPendingEvaluations

SpecReview == Init /\ [][NextReview]_vars

----------------------------------------------------------------------------
(* SpecStats: the evaluator's counts.  As SpecReview, with evaluators      *)
(* setting evaluations to "draft" and fetching their stats instead of      *)
(* their pending annotations.                                              *)

NextStats ==
    \/ Register(EvaluatorBodies)
    \/ ToggleUserEvaluatorRole
    \/ CreateLegacyAnnotation(SentenceIds)
    \/ UpdateAnnotation(CompletedUpdates)
    \/ CreateEvaluationOf(Ids(annotations))
    \/ UpdateEvaluation({[evaluation_status |-> "draft"]})
    \/ GetEvaluatorStats

SpecStats == Init /\ [][NextStats]_vars

----------------------------------------------------------------------------
(* SpecSheet: the sheet view.  Users register with language "fr", admins   *)
(* add sentences, users annotate stored sentences and list the sentences   *)
(* they have not annotated, page by page.                                  *)

NextSheet ==
    \/ Register(FrenchBodies)
    \/ CreateSentence(SentenceCreate)
    \/ CreateLegacyAnnotation(NamedSentences)
    \/ GetUnannotatedSentences

SpecSheet == Init /\ [][NextSheet]_vars

----------------------------------------------------------------------------
(* SpecOwnership: updates by owners and by others.  Evaluators register or *)
(* are made by the admin, users annotate stored sentences and evaluate     *)
(* stored annotations, and every user tries to update every annotation and *)
(* every evaluation.                                                       *)

\* request bodies that replace the highlights
OwnerUpdates ==
    { d \in AnnotationUpdate : d.annotation_status = Unset /\ d.has_highlights
                               /\ d.highlights \in ShortLists }

NextOwnership ==
    \/ Register(EvaluatorBodies)
    \/ ToggleUserEvaluatorRole
    \/ CreateLegacyAnnotation(NamedSentences)
    \/ UpdateAnnotation(OwnerUpdates)
    \/ CreateEvaluationOf(Ids(annotations))
    \/ UpdateEvaluation({[evaluation_status |-> "draft"]})

SpecOwnership == Init /\ [][NextOwnership]_vars

----------------------------------------------------------------------------
(* SpecMissing: requests that name resources, stored or not.  Every        *)
(* request names a sentence, a user, an annotation or an evaluation by an  *)
(* id that is stored or by the first id that is not.                       *)

\* request bodies that set no field
EmptyUpdates ==
    { d \in AnnotationUpdate : d.annotation_status = Unset /\ ~d.has_highlights }

NextMissing ==
    \/ Register(EvaluatorBodies)
    \/ GetSentence
    \/ ToggleUserEvaluatorRole
    \/ CreateAnnotation({<< >>})
    \/ UpdateAnnotation(EmptyUpdates)
    \/ CreateEvaluation
    \/ UpdateEvaluation({[evaluation_status |-> Unset]})

SpecMissing == Init /\ [][NextMissing]_vars

----------------------------------------------------------------------------
(* SpecDrain: a user works through their sentences.  First users register, *)
(* admins add sentences and users annotate.  Then user A begins: from then *)
(* on no sentence is added and no language changes, and A asks for the     *)
(* next sentence and annotates the sentence returned, again and again,     *)
(* until none is returned, and goes on asking.  Other users go on          *)
(* annotating as long as the annotation table has room for A's work.       *)
(* stage holds the step, A, the sentence A was given, the number of        *)
(* sentences that qualified when A began and the number A has annotated    *)
(* since.                                                                  *)

DrRegister ==
    /\ stage.step = "start"
    /\ Register(FrenchBodies)

DrCreateSentence ==
    /\ stage.step = "start"
    /\ CreateSentence(SentenceCreate)

DrBegin ==
    /\ NoRequestInFlight
    /\ stage.step = "start"
    /\ \E A \in Ids(users) :
          /\ Len(annotations) + Cardinality(NextCandidates(A)) <= MaxScenarioAnnotations
          /\ stage' = [stage EXCEPT !.step = "ask", !.A = A,
                                    !.count = Cardinality(NextCandidates(A))]
    /\ UNCHANGED <<db, last, reqs>>

DrAsk ==
    /\ NoRequestInFlight
    /\ stage.step = "ask"
    /\ get_next_sentence(stage.A)
    /\ stage' = IF last'.result # 0
                THEN [stage EXCEPT !.step = "annotate", !.S = last'.result]
                ELSE [stage EXCEPT !.step = "exhausted"]
    /\ UNCHANGED reqs

DrAnnotate ==
    /\ NoRequestInFlight
    /\ stage.step = "annotate"
    /\ \E hl \in ShortLists :
          create_annotation(stage.A, [sentence_id |-> stage.S, highlights |-> hl])
    /\ Len(annotations') <= MaxScenarioAnnotations
    /\ stage' = [stage EXCEPT !.step = "ask",
                              !.made = IF last'.code = HTTP_200_OK
                                       THEN stage.made + 1 ELSE stage.made]
    /\ UNCHANGED reqs

DrAskAgain ==
    /\ NoRequestInFlight
    /\ stage.step = "exhausted"
    /\ get_next_sentence(stage.A)
    /\ UNCHANGED <<reqs, stage>>

\* an annotation by another user, or by anyone before A begins
DrOtherAnnotation ==
    /\ NoRequestInFlight
    /\ \/ stage.step \in {"start", "exhausted"}
       \/ Len(annotations) + (stage.count - stage.made) < MaxScenarioAnnotations
    /\ \E u \in Ids(users) \ {stage.A}, sentence_id \in NamedSentences :
          create_legacy_annotation(u, sentence_id)
    /\ Len(annotations') <= MaxScenarioAnnotations
    /\ UNCHANGED <<reqs, stage>>

NextDrain ==
    \/ DrRegister
    \/ DrCreateSentence
    \/ DrBegin
    \/ DrAsk
    \/ DrAnnotate
    \/ DrAskAgain
    \/ DrOtherAnnotation

\* A keeps going: a request A is about to send is sent
SpecDrain ==
    /\ Init
    /\ [][NextDrain]_vars
    /\ WF_vars(DrAsk)
    /\ WF_vars(DrAnnotate)

----------------------------------------------------------------------------
(* SpecLanguages: users change their languages.  Users register with       *)
(* language "fr", admins add sentences in both languages, users annotate,  *)
(* replace their languages and ask for their next sentence.                *)

\* lists of languages a request may give: none, one, two, one twice
LanguageLists ==
    { << >>, <<"tagalog">>, <<"tagalog", "fr">>, <<"fr", "fr">> }

NextLanguages ==
    \/ Register(FrenchBodies)
    \/ CreateSentence(SentenceCreate)
    \/ CreateLegacyAnnotation(NamedSentences)
    \/ UpdateUserLanguages(LanguageLists)
    \/ GetNextSentence

SpecLanguages == Init /\ [][NextLanguages]_vars

----------------------------------------------------------------------------
(* SpecUpdate: users update their annotations.  Users register with        *)
(* language "fr", annotate stored sentences with or without a highlight,   *)
(* and send every update: a status or none, a list of highlights (empty,   *)
(* with one highlight, with two of the same key) or none.                  *)

\* the lists of at most one highlight, and those of two highlights with the
\* same deduplication key
UpdateLists ==
    { hl \in HighlightLists :
        \/ hl \in ShortLists
        \/ Len(hl) = 2 /\ HighlightKey(hl[1]) = HighlightKey(hl[2]) /\ hl[1] # hl[2] }

UpdateBodies == { d \in AnnotationUpdate : d.highlights \in UpdateLists }

NextUpdate ==
    \/ Register(FrenchBodies)
    \/ CreateAnnotationOf(NamedSentences, ShortLists)
    \/ UpdateAnnotation(UpdateBodies)

SpecUpdate == Init /\ [][NextUpdate]_vars

----------------------------------------------------------------------------
(* SpecToggle: an admin toggles a user twice.  First users register, with  *)
(* and without the evaluator role, annotate and evaluate.  Then an admin    *)
(* toggles the role of a stored user, and toggles it again.  stage holds   *)
(* the step, the user toggled and the tables as they were before the first *)
(* toggle.                                                                 *)

TgRegister ==
    /\ stage.step = "start"
    /\ Register(PlainBodies)

TgCreateLegacyAnnotation ==
    /\ stage.step = "start"
    /\ CreateLegacyAnnotation(NamedSentences)

TgCreateEvaluation ==
    /\ stage.step = "start"
    /\ CreateEvaluationOf(Ids(annotations))

TgFirstToggle ==
    /\ NoRequestInFlight
    /\ stage.step = "start"
    /\ \E u \in Ids(users), user_id \in Ids(users) :
          /\ users[u].is_admin
          /\ toggle_user_evaluator_role(u, user_id)
          /\ stage' = [stage EXCEPT !.step = "once", !.A = user_id, !.saved = db]
    /\ UNCHANGED reqs

TgSecondToggle ==
    /\ NoRequestInFlight
    /\ stage.step = "once"
    /\ \E u \in Ids(users) :
          /\ users[u].is_admin
          /\ toggle_user_evaluator_role(u, stage.A)
    /\ stage' = [stage EXCEPT !.step = "twice"]
    /\ UNCHANGED reqs

NextToggle ==
    \/ TgRegister
    \/ TgCreateLegacyAnnotation
    \/ TgCreateEvaluation
    \/ TgFirstToggle
    \/ TgSecondToggle

SpecToggle == Init /\ [][NextToggle]_vars

----------------------------------------------------------------------------
(* Properties of the annotation workflow (Spec)                            *)

\* user u has an Annotation for the sentence
AnnotatedBy(u, sentence_id) ==
    \E a \in Ids(annotations) :
        annotations[a].annotator_id = u /\ annotations[a].sentence_id = sentence_id

CreateOps == {"create_annotation", "create_legacy_annotation"}

\* C1: under non-overlapping requests no two Annotations have the same
\* (sentence_id, annotator_id), whichever of create_annotation and
\* create_legacy_annotation made them and whatever update_annotation did.
C1_OneAnnotationPerPair ==
    \A a, b \in Ids(annotations) :
        (/\ annotations[a].sentence_id = annotations[b].sentence_id
         /\ annotations[a].annotator_id = annotations[b].annotator_id) => a = b

\* two users have annotated the same sentence, highlights are stored, and
\* a second create by one of them, on the legacy endpoint, has just been
\* refused
C1_Witness ==
    /\ Len(annotations) = 2
    /\ annotations[1].sentence_id = annotations[2].sentence_id
    /\ annotations[1].annotator_id # annotations[2].annotator_id
    /\ Len(highlights) > 0
    /\ last.op = "create_legacy_annotation"
    /\ last.code = HTTP_400_BAD_REQUEST

\* C2: a create (either endpoint) by a user who already has an Annotation
\* for the sentence answers 400 and changes neither the Annotations nor the
\* TextHighlights.
C2_DuplicateCreateRefused ==
    [][ (last'.op \in CreateOps /\ AnnotatedBy(last'.caller, last'.target))
          => /\ last'.code = HTTP_400_BAD_REQUEST
             /\ annotations' = annotations
             /\ highlights' = highlights ]_vars

\* a duplicate create_annotation was refused while highlights are stored
C2_Witness ==
    /\ last.op = "create_annotation"
    /\ last.code = HTTP_400_BAD_REQUEST
    /\ AnnotatedBy(last.caller, last.target)
    /\ Len(highlights) > 0

\* C3: the sentence get_next_sentence returns is stored, active, in the
\* caller's preferred_language and not annotated by the caller.
C3_NextSentenceFilter ==
    (last.op = "get_next_sentence" /\ last.result # 0) =>
        /\ last.result \in Ids(sentences)
        /\ sentences[last.result].is_active
        /\ sentences[last.result].target_language = users[last.caller].preferred_language
        /\ ~AnnotatedBy(last.caller, last.result)

\* the caller got sentence 2 because sentence 1, active and in the caller's
\* language, is one the caller has annotated
C3_Witness ==
    /\ last.op = "get_next_sentence"
    /\ last.result = 2
    /\ sentences[1].is_active
    /\ sentences[1].target_language = users[last.caller].preferred_language
    /\ AnnotatedBy(last.caller, 1)

\* a User other than user_id has the email or the username
Registered(email, username, user_id) ==
    \E x \in Ids(users) \ {user_id} :
        users[x].email = email \/ users[x].username = username

\* C6: register with an email or a username some User already has, a User
\* other than the one the request itself stored, answers 400 in the step
\* that takes the request, and that step adds no User and no UserLanguage
\* row; no two Users share an email or a username.
C6_RegisterConflict ==
    /\ [](\A x, y \in Ids(users) :
            (users[x].email = users[y].email \/ users[x].username = users[y].username)
                => x = y)
    /\ [][ (/\ last'.op = "register"
            /\ Registered(last'.email, last'.username, last'.result))
             => /\ last'.code = HTTP_400_BAD_REQUEST
                /\ NoRequestInFlight
                /\ users' = users
                /\ user_languages' = user_languages ]_vars

\* a register whose email is new and whose username is taken was refused
C6_Witness ==
    /\ last.op = "register"
    /\ last.code = HTTP_400_BAD_REQUEST
    /\ \A x \in Ids(users) : users[x].email # last.email
    /\ \E x \in Ids(users) : users[x].username = last.username

----------------------------------------------------------------------------
(* Properties of highlight deduplication (SpecHighlights)                  *)

\* the tuple highlights are deduplicated by
TupleOf(h) == <<h.start_index, h.end_index, h.text_type, h.comment>>

\* the stored TextHighlights of an annotation, as row positions
HighlightsOf(annotation_id) ==
    { i \in Ids(highlights) : highlights[i].annotation_id = annotation_id }

SubmittedTuples == { TupleOf(last.highlights[i]) : i \in 1 .. Len(last.highlights) }

\* C5: after create_annotation or update_annotation stored a submitted list
\* of highlights, the annotation has exactly one TextHighlight per distinct
\* (start_index, end_index, text_type, comment) of the list and no other;
\* no annotation ever has two TextHighlights with the same tuple.
C5_HighlightsDeduplicated ==
    /\ \A i, j \in Ids(highlights) :
          (/\ highlights[i].annotation_id = highlights[j].annotation_id
           /\ TupleOf(highlights[i]) = TupleOf(highlights[j])) => i = j
    /\ (/\ last.op \in {"create_annotation", "update_annotation"}
        /\ last.result # 0
        /\ last.has_highlights)
          => /\ \A t \in SubmittedTuples :
                  Cardinality({ i \in HighlightsOf(last.result) :
                                  TupleOf(highlights[i]) = t }) = 1
             /\ \A i \in HighlightsOf(last.result) :
                  TupleOf(highlights[i]) \in SubmittedTuples

\* update_annotation was given two highlights with the same tuple and a
\* different text, and the annotation now has one TextHighlight
C5_Witness ==
    /\ last.op = "update_annotation"
    /\ last.result # 0
    /\ Len(last.highlights) = 2
    /\ TupleOf(last.highlights[1]) = TupleOf(last.highlights[2])
    /\ last.highlights[1] # last.highlights[2]
    /\ Cardinality(HighlightsOf(last.result)) = 1

----------------------------------------------------------------------------
(* Properties of the review workflow (SpecEvaluation)                      *)

\* evaluator u has an Evaluation of the annotation
EvaluatedBy(u, annotation_id) ==
    \E e \in Ids(evaluations) :
        evaluations[e].evaluator_id = u /\ evaluations[e].annotation_id = annotation_id

\* C9: under non-overlapping requests no two Evaluations have the same
\* (annotation_id, evaluator_id); a create_evaluation by an evaluator who
\* has an Evaluation of the annotation, other than the one the request
\* itself stored, answers 400 in the step that takes the request, and that
\* step changes neither the Evaluations nor any Annotation.
C9_OneEvaluationPerPair ==
    /\ [](\A e, f \in Ids(evaluations) :
            (/\ evaluations[e].annotation_id = evaluations[f].annotation_id
             /\ evaluations[e].evaluator_id = evaluations[f].evaluator_id) => e = f)
    /\ [][ (/\ last'.op = "create_evaluation"
            /\ users[last'.caller].is_evaluator
            /\ \E e \in Ids(evaluations) \ {last'.result} :
                  /\ evaluations[e].evaluator_id = last'.caller
                  /\ evaluations[e].annotation_id = last'.target)
             => /\ last'.code = HTTP_400_BAD_REQUEST
                /\ NoRequestInFlight
                /\ evaluations' = evaluations
                /\ annotations' = annotations ]_vars

\* a second create_evaluation was refused for an annotation that two
\* evaluators have evaluated and whose owner set it back to "completed"
C9_Witness ==
    /\ last.op = "create_evaluation"
    /\ last.code = HTTP_400_BAD_REQUEST
    /\ Len(evaluations) = 2
    /\ evaluations[1].annotation_id = evaluations[2].annotation_id
    /\ last.target \in Ids(annotations)
    /\ annotations[last.target].annotation_status = "completed"

----------------------------------------------------------------------------
(* Properties of the role guards (SpecRoles)                               *)

AdminOps == {"create_sentence", "bulk_create_sentences", "toggle_user_evaluator_role"}
EvaluatorOps == {"create_evaluation", "update_evaluation"}

\* C7: a request to an admin-only endpoint by a user who is not an admin,
\* and a request to an evaluator-only endpoint by a user who is not an
\* evaluator, answers 403 and changes no table.
C7_RoleGuards ==
    [][ (\/ last'.op \in AdminOps /\ ~users[last'.caller].is_admin
         \/ last'.op \in EvaluatorOps /\ ~users[last'.caller].is_evaluator)
          => /\ last'.code = HTTP_403_FORBIDDEN
             /\ db' = db ]_vars

\* an evaluator who is not an admin was refused by create_sentence
C7_Witness ==
    /\ last.op = "create_sentence"
    /\ last.code = HTTP_403_FORBIDDEN
    /\ users[last.caller].is_evaluator
    /\ ~users[last.caller].is_admin
    /\ Len(evaluations) > 0

----------------------------------------------------------------------------
(* The scenario (SpecScenario)                                             *)

\* no sentence other than S is active, in A's language and not annotated by A
OnlyCandidate(A, S) ==
    \A s \in Ids(sentences) \ {S} :
        \/ ~sentences[s].is_active
        \/ sentences[s].target_language # users[A].preferred_language
        \/ AnnotatedBy(A, s)

\* C8: in the scenario, A's first get_next_sentence returns S when S is the
\* only sentence that qualifies, and, once A has annotated S, A's next
\* get_next_sentence returns none or a stored sentence other than S.
C8_Scenario ==
    /\ (/\ stage.step = "asked"
        /\ last.op = "get_next_sentence"
        /\ OnlyCandidate(stage.A, stage.S)) => last.result = stage.S
    /\ (/\ stage.step = "asked_again"
        /\ last.op = "get_next_sentence")
          => /\ last.caller = stage.A
             /\ AnnotatedBy(stage.A, stage.S)
             /\ last.result # stage.S
             /\ last.result = 0 \/ last.result \in Ids(sentences)

\* the whole trace: A was given S, annotated it, and is now given none
C8_Witness ==
    /\ stage.step = "asked_again"
    /\ last.op = "get_next_sentence"
    /\ users[stage.A].preferred_language = "fr"
    /\ sentences[stage.S].target_language = "fr"
    /\ stage.first = stage.S
    /\ last.result = 0

----------------------------------------------------------------------------
(* The check-then-insert race (SpecConcurrent)                             *)

PairCount(u, sentence_id) ==
    Cardinality({ a \in Ids(annotations) :
                    /\ annotations[a].annotator_id = u
                    /\ annotations[a].sentence_id = sentence_id })

\* requests r1 and r2 are by the same user for the same sentence
SamePair(r1, r2) ==
    /\ r1 # r2
    /\ reqs[r1].caller = reqs[r2].caller
    /\ reqs[r1].sentence_id = reqs[r2].sentence_id

\* C10: a create_annotation request that has passed its pre-check stores its
\* Annotation and succeeds whatever was stored in between; so two requests
\* of one user for one sentence that both passed the pre-check both succeed
\* and leave two Annotations with the same (sentence_id, annotator_id).
C10_CheckThenInsertRace ==
    /\ [](\A r1, r2 \in 1 .. NumReqs :
            (/\ SamePair(r1, r2)
             /\ reqs[r1].pc = "done" /\ reqs[r1].code # HTTP_400_BAD_REQUEST
             /\ reqs[r2].pc = "done" /\ reqs[r2].code # HTTP_400_BAD_REQUEST)
               => /\ reqs[r1].code = HTTP_200_OK
                  /\ reqs[r2].code = HTTP_200_OK
                  /\ PairCount(reqs[r1].caller, reqs[r1].sentence_id) >= 2)
    /\ [][ \A r \in 1 .. NumReqs :
             (reqs[r].pc = "checked" /\ reqs'[r].pc = "done")
               => /\ reqs'[r].code = HTTP_200_OK
                  /\ Len(annotations') = Len(annotations) + 1
                  /\ annotations'[Len(annotations')].annotator_id = reqs[r].caller
                  /\ annotations'[Len(annotations')].sentence_id = reqs[r].sentence_id
          ]_vars

\* both requests of a user for a sentence have succeeded and the sentence
\* has two Annotations by that user
C10_Witness ==
    \E r1, r2 \in 1 .. NumReqs :
        /\ SamePair(r1, r2)
        /\ reqs[r1].pc = "done" /\ reqs[r1].code = HTTP_200_OK
        /\ reqs[r2].pc = "done" /\ reqs[r2].code = HTTP_200_OK
        /\ PairCount(reqs[r1].caller, reqs[r1].sentence_id) = 2

----------------------------------------------------------------------------
(* Row lifecycle (SpecLifecycle)                                           *)

\* the row is in the table after the step
StillIn(row, table) == \E j \in Ids(table) : table[j] = row

\* C11 as stated: no request deletes a stored row; every User, Sentence,
\* Annotation and Evaluation keeps its primary key and every UserLanguage
\* and TextHighlight row stored before a request is stored after it.
C11_NoRowDeleted ==
    [][ /\ Len(users') >= Len(users)
        /\ Len(sentences') >= Len(sentences)
        /\ Len(annotations') >= Len(annotations)
        /\ Len(evaluations') >= Len(evaluations)
        /\ \A i \in Ids(user_languages) : StillIn(user_languages[i], user_languages')
        /\ \A i \in Ids(highlights) : StillIn(highlights[i], highlights') ]_vars

\* C11, amended: no request deletes a User, Sentence, Annotation or
\* Evaluation row.  A TextHighlight row disappears only in a successful
\* update_annotation that gives a highlights list, and only if it belongs
\* to the annotation updated; a UserLanguage row disappears only in
\* update_user_languages, and only if it belongs to the caller.
C11_DeletesOnlyReplace ==
    [][ /\ Len(users') >= Len(users)
        /\ \A x \in Ids(users) : /\ users'[x].email = users[x].email
                                 /\ users'[x].username = users[x].username
        /\ Len(sentences') >= Len(sentences)
        /\ \A x \in Ids(sentences) : sentences'[x] = sentences[x]
        /\ Len(annotations') >= Len(annotations)
        /\ \A a \in Ids(annotations) :
              /\ annotations'[a].sentence_id = annotations[a].sentence_id
              /\ annotations'[a].annotator_id = annotations[a].annotator_id
        /\ Len(evaluations') >= Len(evaluations)
        /\ \A e \in Ids(evaluations) :
              /\ evaluations'[e].annotation_id = evaluations[e].annotation_id
              /\ evaluations'[e].evaluator_id = evaluations[e].evaluator_id
        /\ \A i \in Ids(highlights) :
              ~StillIn(highlights[i], highlights')
                => /\ last'.op = "update_annotation"
                   /\ last'.code # HTTP_404_NOT_FOUND
                   /\ last'.has_highlights
                   /\ highlights[i].annotation_id = last'.target
                   /\ annotations[last'.target].annotator_id = last'.caller
        /\ \A i \in Ids(user_languages) :
              ~StillIn(user_languages[i], user_languages')
                => /\ last'.op = "update_user_languages"
                   /\ user_languages[i].user_id = last'.caller ]_vars

\* a registered user, whose registration stored a UserLanguage row, has
\* replaced their languages by the empty list and has no row left, while
\* the row of the other user and a TextHighlight are still stored
C11_Witness ==
    /\ last.op = "update_user_languages"
    /\ last.caller = 2
    /\ last.result = 0
    /\ \A i \in Ids(user_languages) : user_languages[i].user_id # 2
    /\ \E i \in Ids(user_languages) : user_languages[i].user_id = 1
    /\ Len(highlights) > 0

----------------------------------------------------------------------------
(* Atomicity of the handlers (SpecAtomic)                                  *)

\* the UserLanguage rows of a user
LanguagesOf(user_id) ==
    { i \in Ids(user_languages) : user_languages[i].user_id = user_id }

\* C12 as stated: the writes of one request are committed together.  Once
\* a create_evaluation has stored its Evaluation of a stored Annotation,
\* that Annotation is "reviewed" (no request of SpecAtomic sets a status
\* back); once a register has stored its User, the UserLanguage rows it
\* adds are stored too.
C12_AllOrNothing ==
    \A r \in 1 .. NumReqs :
        /\ (/\ reqs[r].pc # "idle"
            /\ reqs[r].op = "create_evaluation"
            /\ reqs[r].row # 0
            /\ reqs[r].target \in Ids(annotations))
              => annotations[reqs[r].target].annotation_status = "reviewed"
        /\ (/\ reqs[r].pc # "idle"
            /\ reqs[r].op = "register"
            /\ reqs[r].row # 0)
              => Cardinality(LanguagesOf(reqs[r].row)) = Len(reqs[r].languages)

\* C4 as stated: a create_evaluation that answers 200 leaves the Annotation
\* it names "reviewed", and the status of an Annotation changes only in
\* the second commit of a create_evaluation that names it.
C4_EvaluationMarksReviewed ==
    [][ /\ (last'.op = "create_evaluation" /\ last'.code = HTTP_200_OK)
            => annotations'[last'.target].annotation_status = "reviewed"
        /\ \A a \in Ids(annotations) :
              annotations'[a].annotation_status # annotations[a].annotation_status
                => \E r \in 1 .. NumReqs :
                      /\ reqs[r].pc = "annotation_found"
                      /\ reqs[r].target = a ]_vars

----------------------------------------------------------------------------
(* The status of an annotation (SpecEvaluation)                            *)

\* C13 as stated: in every reachable state the status of every Annotation
\* is "completed" or "reviewed".
C13_StatusDomain ==
    \A a \in Ids(annotations) :
        annotations[a].annotation_status \in {"completed", "reviewed"}

----------------------------------------------------------------------------
(* Pending evaluations (SpecReview)                                        *)

\* the Annotations that are "completed" and not evaluated by the evaluator
PendingFor(u) ==
    { a \in Ids(annotations) :
        annotations[a].annotation_status = "completed" /\ ~EvaluatedBy(u, a) }

\* the rows of the last response, as a set
ReturnedRows == { last.rows[i] : i \in 1 .. Len(last.rows) }

\* C14 as stated: get_pending_evaluations by an evaluator, with skip 0 and
\* a limit of at least the number of annotations, returns exactly the
\* Annotations that are "completed" and not evaluated by the caller, each
\* once; no page ever holds an annotation the caller has evaluated.
C14_PendingEvaluations ==
    (last.op = "get_pending_evaluations" /\ users[last.caller].is_evaluator) =>
        /\ \A a \in ReturnedRows : ~EvaluatedBy(last.caller, a)
        /\ (last.skip = 0 /\ last.limit >= Len(annotations))
              => /\ last.code = HTTP_200_OK
                 /\ ReturnedRows = PendingFor(last.caller)
                 /\ Len(last.rows) = Cardinality(PendingFor(last.caller))

----------------------------------------------------------------------------
(* Evaluator stats (SpecStats)                                             *)

\* the Evaluations of an evaluator
EvaluationsBy(u) == { e \in Ids(evaluations) : evaluations[e].evaluator_id = u }

\* C19 as stated: get_evaluator_stats reports as total_evaluations the
\* number of the caller's Evaluations, as completed_evaluations at most
\* that number, and as pending_evaluations the number of Annotations
\* get_pending_evaluations returns to the caller without offset and with a
\* limit of all the annotations, in the same state.
C19_EvaluatorStats ==
    (last.op = "get_evaluator_stats" /\ last.code = HTTP_200_OK) =>
        /\ last.stats.total_evaluations = Cardinality(EvaluationsBy(last.caller))
        /\ last.stats.completed_evaluations <= last.stats.total_evaluations
        /\ last.stats.pending_evaluations =
              Len(PendingEvaluationsResponse(last.caller, 0, Len(annotations)).rows)

----------------------------------------------------------------------------
(* The choice of the next sentence (Spec)                                  *)

\* the sentence is active, in the user's preferred_language and not
\* annotated by the user
Qualifies(u, s) ==
    /\ sentences[s].is_active
    /\ sentences[s].target_language = users[u].preferred_language
    /\ ~AnnotatedBy(u, s)

----------------------------------------------------------------------------
(* The list of unannotated sentences (SpecSheet)                           *)

\* C16: get_unannotated_sentences returns at most limit sentences, each of
\* them stored, active, in the caller's preferred_language and not
\* annotated by the caller, none of them twice; with skip 0 and a limit of
\* at least the number of sentences it returns every such sentence.
C16_UnannotatedSentences ==
    last.op = "get_unannotated_sentences" =>
        /\ Len(last.rows) <= last.limit
        /\ \A i \in 1 .. Len(last.rows) :
              /\ last.rows[i] \in Ids(sentences)
              /\ Qualifies(last.caller, last.rows[i])
        /\ \A i, j \in 1 .. Len(last.rows) : last.rows[i] = last.rows[j] => i = j
        /\ (last.skip = 0 /\ last.limit >= Len(sentences))
              => \A s \in Ids(sentences) :
                    Qualifies(last.caller, s) => \E i \in 1 .. Len(last.rows) : last.rows[i] = s

\* several sentences qualify for the caller and a page of limit 1 holds one
C16_Witness ==
    /\ last.op = "get_unannotated_sentences"
    /\ last.limit = 1
    /\ Len(last.rows) = 1
    /\ Cardinality({ s \in Ids(sentences) : Qualifies(last.caller, s) }) > 1

----------------------------------------------------------------------------
(* Updates by users who are not the owner (SpecOwnership)                  *)

\* C17: update_annotation of a stored Annotation by a user who is not its
\* annotator, and update_evaluation of a stored Evaluation by an evaluator
\* who is not its evaluator, answer 404 and leave the Annotations, the
\* TextHighlights and the Evaluations as they were.  (update_evaluation is
\* an evaluator endpoint: a caller without the role is answered by the
\* guard, C7.)
C17_OnlyOwnerUpdates ==
    [][ /\ (/\ last'.op = "update_annotation"
             /\ last'.target \in Ids(annotations)
             /\ annotations[last'.target].annotator_id # last'.caller)
              => /\ last'.code = HTTP_404_NOT_FOUND
                 /\ annotations' = annotations
                 /\ highlights' = highlights
                 /\ evaluations' = evaluations
        /\ (/\ last'.op = "update_evaluation"
             /\ users[last'.caller].is_evaluator
             /\ last'.target \in Ids(evaluations)
             /\ evaluations[last'.target].evaluator_id # last'.caller)
              => /\ last'.code = HTTP_404_NOT_FOUND
                 /\ annotations' = annotations
                 /\ highlights' = highlights
                 /\ evaluations' = evaluations ]_vars

\* an evaluator has been answered 404 by update_evaluation on the
\* Evaluation of another evaluator, still "completed", of an annotation
\* that has a highlight
C17_Witness ==
    /\ last.op = "update_evaluation"
    /\ last.code = HTTP_404_NOT_FOUND
    /\ users[last.caller].is_evaluator
    /\ last.target \in Ids(evaluations)
    /\ evaluations[last.target].evaluator_id # last.caller
    /\ evaluations[last.target].evaluation_status = "completed"
    /\ HighlightsOf(evaluations[last.target].annotation_id) # {}

----------------------------------------------------------------------------
(* Requests that name a missing resource (SpecMissing)                     *)

\* the request just answered named a resource that is not stored
NamesMissing(before_sentences, before_users, before_annotations, before_evaluations, r) ==
    \/ r.op = "get_sentence" /\ r.target \notin Ids(before_sentences)
    \/ /\ r.op = "toggle_user_evaluator_role"
       /\ before_users[r.caller].is_admin
       /\ r.target \notin Ids(before_users)
    \/ r.op = "update_annotation" /\ r.target \notin Ids(before_annotations)
    \/ /\ r.op = "update_evaluation"
       /\ before_users[r.caller].is_evaluator
       /\ r.target \notin Ids(before_evaluations)
    \/ r.op = "create_annotation" /\ r.target \notin Ids(before_sentences)
    \/ /\ r.op = "create_evaluation"
       /\ before_users[r.caller].is_evaluator
       /\ r.target \notin Ids(before_annotations)

\* C18 as stated: a request that names a resource that does not exist
\* (get_sentence, toggle_user_evaluator_role, update_annotation,
\* update_evaluation, create_annotation naming the sentence, create_evaluation
\* naming the annotation) answers 404 and changes no table.
C18_MissingResource ==
    [][ NamesMissing(sentences, users, annotations, evaluations, last')
          => /\ last'.code = HTTP_404_NOT_FOUND
             /\ db' = db ]_vars

----------------------------------------------------------------------------
(* Working through the sentences (SpecDrain)                               *)

\* C20: once A has begun, A is eventually returned none; that happens after
\* exactly as many annotations by A as sentences qualified when A began;
\* and from then on every get_next_sentence by A returns none.
C20_Exhausts ==
    /\ (stage.step \in {"ask", "annotate"}) ~> (stage.step = "exhausted")
    /\ [](stage.step = "exhausted" =>
            /\ stage.made = stage.count
            /\ NextCandidates(stage.A) = {}
            /\ (last.op = "get_next_sentence" /\ last.caller = stage.A)
                  => last.result = 0)
    /\ [][stage.step = "exhausted" => stage'.step = "exhausted"]_vars

\* A began with the five sample sentences in "fr" qualifying, has annotated
\* all of them and has then been returned none
C20_Witness ==
    /\ stage.step = "exhausted"
    /\ users[stage.A].preferred_language = "fr"
    /\ stage.count = Cardinality({ s \in Ids(sentences) : sentences[s].target_language = "fr" })
    /\ stage.made = stage.count
    /\ last.op = "get_next_sentence"
    /\ last.caller = stage.A
    /\ last.result = 0
    /\ \A a \in Ids(annotations) : annotations[a].annotator_id = stage.A

----------------------------------------------------------------------------
(* The status of a reviewed annotation (SpecReview)                        *)

\* some evaluator has an Evaluation of the annotation
Evaluated(annotation_id) ==
    \E e \in Ids(evaluations) : evaluations[e].annotation_id = annotation_id

\* C21 as stated: an Annotation that is "reviewed" is not "completed" after
\* any request, and get_pending_evaluations never returns, to any evaluator,
\* an Annotation that has been evaluated.
C21_ReviewedIsFinal ==
    [][ /\ \A a \in Ids(annotations) :
              annotations[a].annotation_status = "reviewed"
                => annotations'[a].annotation_status # "completed"
        /\ (last'.op = "get_pending_evaluations" /\ last'.code = HTTP_200_OK)
              => \A i \in 1 .. Len(last'.rows) : ~Evaluated(last'.rows[i]) ]_vars

----------------------------------------------------------------------------
(* How the roles are granted (SpecRoles)                                   *)

\* C22 as stated: a User is an evaluator after a request, and was not one
\* (or was not stored) before it, only if the request is a
\* toggle_user_evaluator_role by an admin; no request changes the is_admin
\* flag of a User.
C22_RolesGrantedByAdmin ==
    [][ /\ \A x \in Ids(users') :
              (/\ users'[x].is_evaluator
               /\ x \in Ids(users) => ~users[x].is_evaluator)
                => /\ last'.op = "toggle_user_evaluator_role"
                   /\ users[last'.caller].is_admin
        /\ \A x \in Ids(users) : users'[x].is_admin = users[x].is_admin ]_vars

----------------------------------------------------------------------------
(* Referential integrity (SpecMissing)                                     *)

\* C23 as stated: in every reachable state every Annotation's sentence_id
\* is the id of a stored Sentence, every Evaluation's annotation_id the id
\* of a stored Annotation and every TextHighlight's annotation_id the id of
\* a stored Annotation.
C23_ReferentialIntegrity ==
    /\ \A a \in Ids(annotations) : annotations[a].sentence_id \in Ids(sentences)
    /\ \A e \in Ids(evaluations) : evaluations[e].annotation_id \in Ids(annotations)
    /\ \A h \in Ids(highlights) : highlights[h].annotation_id \in Ids(annotations)

----------------------------------------------------------------------------
(* One user's work and another user's assignment (SpecUpdate)              *)

\* C24: a create_annotation or update_annotation by user A, whatever its
\* answer, leaves for every other user B the sentence get_next_sentence
\* returns and the list get_unannotated_sentences cuts its pages from, and
\* so every page of it, as they were.
C24_OthersAssignmentUnchanged ==
    [][ last'.op \in {"create_annotation", "update_annotation"}
          => \A B \in Ids(users) \ {last'.caller} :
                /\ NextSentenceFor(B)' = NextSentenceFor(B)
                /\ UnannotatedSentences(B)' = UnannotatedSentences(B) ]_vars

\* user A has just annotated, with a highlight, the sentence that another
\* user B is still to be given next: it qualifies for B and B has no
\* annotation
C24_Witness ==
    /\ last.op = "create_annotation"
    /\ last.code = HTTP_200_OK
    /\ Len(highlights) > 0
    /\ AnnotatedBy(last.caller, last.target)
    /\ \E B \in Ids(users) \ {last.caller} :
          /\ NextSentenceFor(B) = last.target
          /\ UnannotatedSentences(B) # << >>
          /\ \A a \in Ids(annotations) : annotations[a].annotator_id # B

----------------------------------------------------------------------------
(* Replacing one's languages (SpecLanguages)                               *)

\* the languages of the UserLanguage rows of a user, in table order
LanguageList(table, user_id) ==
    LET rows == SelectRows(table, [i \in Ids(table) |-> table[i].user_id = user_id], 1)
    IN  [i \in 1 .. Len(rows) |-> rows[i].language]

\* C25: after update_user_languages(languages) the caller's UserLanguage
\* rows are one per element of the list, in its order, and every other
\* user's rows are as they were; the caller's preferred_language is the
\* first element of a non-empty list, so that the sentence the caller would
\* be given next is none or one in that language, and is as it was for the
\* empty list; every other field of the caller and every other User is as
\* it was.  A sentence get_next_sentence returns is in the caller's
\* preferred_language.
C25_UpdateUserLanguages ==
    /\ [][ \A u \in Ids(users), languages \in LanguageLists :
             (/\ last'.op = "update_user_languages"
              /\ last'.caller = u
              /\ last'.languages = languages)
               =>   /\ LanguageList(user_languages', u) = languages
                    /\ \A x \in Ids(users) \ {u} :
                          /\ LanguageList(user_languages', x) = LanguageList(user_languages, x)
                          /\ users'[x] = users[x]
                    /\ Len(users') = Len(users)
                    /\ users'[u] = [users[u] EXCEPT !.preferred_language =
                                       IF languages # << >> THEN languages[1]
                                       ELSE users[u].preferred_language]
                    /\ languages # << >> =>
                          \/ NextSentenceFor(u)' = 0
                          \/ sentences[NextSentenceFor(u)'].target_language = languages[1]
                    /\ <<sentences, annotations, highlights, evaluations>>'
                          = <<sentences, annotations, highlights, evaluations>> ]_vars
    /\ []((last.op = "get_next_sentence" /\ last.result # 0)
            => sentences[last.result].target_language
                 = users[last.caller].preferred_language)

\* a user registered with "fr" has replaced their languages by "tagalog"
\* and "fr": they have two rows, the other user keeps a row, and the
\* sentence they would be given next is the first in "tagalog", though the
\* first sentence, in "fr", is active and not annotated by them
C25_Witness ==
    /\ last.op = "update_user_languages"
    /\ last.languages = <<"tagalog", "fr">>
    /\ LanguageList(user_languages, last.caller) = <<"tagalog", "fr">>
    /\ users[last.caller].preferred_language = "tagalog"
    /\ \E x \in Ids(users) \ {last.caller} : LanguageList(user_languages, x) # << >>
    /\ sentences[FirstFrench].is_active
    /\ sentences[FirstFrench].target_language = "fr"
    /\ ~AnnotatedBy(last.caller, FirstFrench)
    /\ NextSentenceFor(last.caller) = FirstTagalog

----------------------------------------------------------------------------
(* What update_annotation changes (SpecUpdate)                             *)

\* the TextHighlights of the table that belong to other annotations, in
\* table order
OtherHighlights(table, annotation_id) ==
    SelectRows(table, [i \in Ids(table) |-> table[i].annotation_id # annotation_id], 1)

\* the row stores the k-th highlight of the list, and no earlier highlight
\* of the list has the same tuple
StoresFirstOfTuple(row, hl, k) ==
    /\ row.highlighted_text = hl[k].highlighted_text
    /\ TupleOf(row) = TupleOf(hl[k])
    /\ \A j \in 1 .. (k - 1) : TupleOf(hl[j]) # TupleOf(hl[k])

\* C26: an update_annotation that finds the annotation leaves its status as
\* it was when the request sets none and stores the status of the request
\* otherwise; leaves every TextHighlight as it was when the request gives no
\* highlights; otherwise leaves the TextHighlights of the other annotations
\* as they were and gives the annotation one TextHighlight per distinct
\* tuple of the list, the first with that tuple, none for the empty list;
\* changes neither sentence_id nor annotator_id, no other Annotation and no
\* other table.
C26_UpdateChangesOnlyGiven ==
    [][ (last'.op = "update_annotation" /\ last'.code # HTTP_404_NOT_FOUND)
          => LET id == last'.target
                 hl == last'.highlights
             IN  /\ Len(annotations') = Len(annotations)
                 /\ \A a \in Ids(annotations) \ {id} : annotations'[a] = annotations[a]
                 /\ annotations'[id].sentence_id = annotations[id].sentence_id
                 /\ annotations'[id].annotator_id = annotations[id].annotator_id
                 /\ annotations'[id].annotation_status =
                       IF last'.annotation_status = Unset
                       THEN annotations[id].annotation_status
                       ELSE last'.annotation_status
                 /\ ~last'.has_highlights => highlights' = highlights
                 /\ last'.has_highlights =>
                       /\ OtherHighlights(highlights', id) = OtherHighlights(highlights, id)
                       /\ Cardinality({ i \in Ids(highlights') :
                                          highlights'[i].annotation_id = id })
                            = Cardinality({ TupleOf(hl[k]) : k \in 1 .. Len(hl) })
                       /\ \A i \in Ids(highlights') :
                             highlights'[i].annotation_id = id
                               => \E k \in 1 .. Len(hl) :
                                     StoresFirstOfTuple(highlights'[i], hl, k)
                 /\ <<users, user_languages, sentences, evaluations>>'
                       = <<users, user_languages, sentences, evaluations>> ]_vars

\* an update that sets no status and gives the empty list of highlights has
\* left the annotation "in_progress" and without TextHighlights, while the
\* other annotation, "completed", keeps its TextHighlight
C26_Witness ==
    /\ last.op = "update_annotation"
    /\ last.code = HTTP_200_OK
    /\ last.annotation_status = Unset
    /\ last.has_highlights
    /\ last.highlights = << >>
    /\ annotations[last.target].annotation_status = "in_progress"
    /\ HighlightsOf(last.target) = {}
    /\ \E a \in Ids(annotations) \ {last.target} :
          /\ annotations[a].annotation_status = "completed"
          /\ HighlightsOf(a) # {}

----------------------------------------------------------------------------
(* What create_annotation checks (Spec)                                    *)

\* C27: a create_annotation that names a stored sentence the caller has not
\* annotated succeeds, whether or not the sentence is active and in the
\* caller's preferred_language: it answers 200 and adds one Annotation, of
\* that sentence, by the caller, "completed", leaving the others as they
\* were.
C27_CreateChecksOnlyUniqueness ==
    [][ (/\ last'.op = "create_annotation"
         /\ last'.target \in Ids(sentences)
         /\ ~AnnotatedBy(last'.caller, last'.target))
          => /\ last'.code = HTTP_200_OK
             /\ Len(annotations') = Len(annotations) + 1
             /\ last'.result = Len(annotations')
             /\ annotations'[last'.result] =
                   [sentence_id |-> last'.target, annotator_id |-> last'.caller,
                    annotation_status |-> "completed"]
             /\ \A a \in Ids(annotations) : annotations'[a] = annotations[a] ]_vars

\* a user whose preferred_language is "tagalog" has annotated, with
\* success, a sentence in "fr", which get_next_sentence never gives them
C27_Witness ==
    /\ last.op = "create_annotation"
    /\ last.code = HTTP_200_OK
    /\ last.target \notin NextCandidates(last.caller)
    /\ sentences[last.target].target_language = "fr"
    /\ users[last.caller].preferred_language = "tagalog"
    /\ annotations[last.result].annotator_id = last.caller
    /\ annotations[last.result].sentence_id = last.target
    /\ annotations[last.result].annotation_status = "completed"

----------------------------------------------------------------------------
(* Toggling the evaluator role (SpecToggle)                                *)

\* C28: toggle_user_evaluator_role by an admin on a stored user answers 200,
\* negates the is_evaluator flag of that user and leaves every other field,
\* every other User and every other table as it was; after a second toggle
\* of the same user every table is as it was before the first, and between
\* the two it is not.
C28_ToggleTwiceRestores ==
    /\ [][ (/\ last'.op = "toggle_user_evaluator_role"
            /\ users[last'.caller].is_admin
            /\ last'.target \in Ids(users))
             => /\ last'.code = HTTP_200_OK
                /\ users' = [users EXCEPT ![last'.target].is_evaluator =
                                             ~users[last'.target].is_evaluator]
                /\ <<user_languages, sentences, annotations, highlights, evaluations>>'
                      = <<user_languages, sentences, annotations, highlights, evaluations>>
          ]_vars
    /\ [](stage.step = "once" => db # stage.saved)
    /\ [](stage.step = "twice" => db = stage.saved)

\* an admin has toggled twice a user who registered as an evaluator and has
\* evaluated an annotation: the user is an evaluator again and every table
\* is as it was
C28_Witness ==
    /\ stage.step = "twice"
    /\ last.op = "toggle_user_evaluator_role"
    /\ last.code = HTTP_200_OK
    /\ last.target = stage.A
    /\ ~users[stage.A].is_admin
    /\ users[stage.A].is_evaluator
    /\ EvaluatedBy(stage.A, 1)
    /\ db = stage.saved

====
